---- MODULE Spec2Model ----
(***************************************************************************)
(* RepoSage (backend/chatbot.py, backend/app.py): the repository analysis *)
(* engine.  RepoAnalyzer.analyze_repo (the orchestrator with its two pool *)
(* workers), _get_commit_history (the commit indexer), get_commit_by_hash  *)
(* (the commit resolver) and get_file_diff over a model of the git object  *)
(* store; _get_file_structure (the crawler) over a model of the working    *)
(* tree; search_relevant_files and search_commit_history (the rankers);    *)
(* of app.py, repo_cache with the endpoints that fill and read it, the     *)
(* wait_for around the commit lookup, and, of chatbot.py, the process-wide *)
(* sentence transformer.                                                   *)
(***************************************************************************)
EXTENDS Integers, Sequences, FiniteSets, TLC

VARIABLES
    \* ---- analyze_repo: the calling thread and the two pool workers ----
    an_pc,          \* position of the thread that called analyze_repo
    fut,            \* the two futures: state and value
    loc,            \* locals repo_info, commit_history, file_structure, important_files
    phase,          \* per phase: "none", "running", "returned", "raised"
    phaseval,       \* per phase: the value the phase returned ("none" before / on raise)
    calls,          \* per phase: number of invocations
    an_ret          \* what analyze_repo returned: "none" or the results dict
    \* ---- repository, analyzer and resolver ----
    ,
    repo,           \* the object store: commits newest first (iter_commits order)
    commit_history, \* RepoAnalyzer.commit_history
    hist_ret,       \* return value of the last _get_commit_history call
    hist_runs,      \* number of _get_commit_history calls made
    hist_call,      \* the last _get_commit_history call: its argument, whether it raised
    res             \* the last get_commit_by_hash call: input, result, VCS calls
    \* ---- get_file_diff ----
    ,
    diff_res        \* the last get_file_diff call: input, faults, what it returned
    \* ---- the working-tree crawl and the file search ----
    ,
    worktree,        \* the working tree on disk: per path, what is there
    file_contents,   \* RepoAnalyzer.file_contents (a dict, in insertion order)
    file_embeddings, \* RepoAnalyzer.file_embeddings (a dict, in insertion order)
    file_structure,  \* return value of the last _get_file_structure call
    crawl,           \* the _get_file_structure calls made, and how the last one ended
    fsearch          \* the last search_relevant_files call
    \* ---- the commit search ----
    ,
    csearch          \* the last search_commit_history call
    \* ---- app.py: the repository cache and the requests ----
    ,
    clock,           \* the wall clock, in seconds
    repo_cache,      \* repo_cache: per URL, the entry or none
    clone_dirs,      \* the clone directories there are
    analyzed,        \* the analyzers whose analyze_repo ran
    reqs,            \* the requests: endpoint, arguments, position, answer
    ready            \* the callbacks the event loop has ready, first to run first
    \* ---- the shared embedding model ----
    ,
    global_sentence_transformer, \* _global_sentence_transformer: 0 (None) or an instance
    built,           \* the SentenceTransformer instances constructed so far
    threads          \* the threads in get_global_sentence_transformer
    \* ---- the two pool workers of analyze_repo, step by step ----
    ,
    work             \* how far each worker is, and the results analyze_repo returned

anVars == <<an_pc, fut, loc, phase, phaseval, calls, an_ret>>
rsVars == <<repo, commit_history, hist_ret, hist_runs, hist_call, res>>
dfVars == <<diff_res>>
crVars == <<worktree, file_contents, file_embeddings, file_structure, crawl, fsearch>>
csVars == <<csearch>>
apVars == <<clock, repo_cache, clone_dirs, analyzed, reqs>>
tmVars == <<ready>>
glVars == <<global_sentence_transformer, built, threads>>
wkVars == <<work>>
svVars == <<apVars, tmVars, glVars, wkVars>>
vars   == <<an_pc, fut, loc, phase, phaseval, calls, an_ret,
            repo, commit_history, hist_ret, hist_runs, hist_call, res,
            diff_res,
            worktree, file_contents, file_embeddings, file_structure, crawl, fsearch,
            csearch,
            clock, repo_cache, clone_dirs, analyzed, reqs, ready,
            global_sentence_transformer, built, threads,
            work>>

\* what an operation of one part leaves alone
exceptAn == <<rsVars, dfVars, crVars, csVars, svVars>>
exceptRs == <<anVars, dfVars, crVars, csVars, svVars>>

(***************************************************************************)
(* analyze_repo                                                            *)
(***************************************************************************)
Phases == {"repo_info", "commit_history", "file_structure", "important_files"}
Tasks  == {"commit_history", "file_structure"}

\* chatbot.py:62-67 and 70-72: what a failed phase leaves in the result
Default(p) == IF p = "repo_info" THEN "fallback_info" ELSE "empty"

\* what a phase can return on its own (an empty result is a legal result)
OwnValues(p) == IF p = "repo_info" THEN {"info_a", "info_b"} ELSE {"empty", "value"}

\* Future.done()
FutureDone(t) == fut[t] \in {"returned", "raised"}

\* where control resumes when phase p raises: the handler that catches it
ResumeOuter(p) == "build"
ResumeEarly(p) ==
    CASE p = "repo_info"       -> "submit_history"
      [] p = "commit_history"  -> "important"
      [] p = "file_structure"  -> "shutdown"
      [] p = "important_files" -> "build"
Resume(p) ==
    CASE p = "repo_info"       -> "submit_history"      \* except at line 60
      [] p = "commit_history"  -> "result_structure"    \* except at line 82
      [] p = "file_structure"  -> "shutdown"            \* except at line 88
      [] p = "important_files" -> "build"               \* except at line 95

AnInit ==
    /\ an_pc = "info"
    /\ fut = [t \in Tasks |-> "none"]
    /\ loc = [p \in Phases |-> "unset"]
    /\ phase = [p \in Phases |-> "none"]
    /\ phaseval = [p \in Phases |-> "none"]
    /\ calls = [p \in Phases |-> 0]
    /\ an_ret = "none"

\* lines 58-67: repo_info = self._get_repo_info(), or the fallback dict
GetRepoInfo ==
    /\ an_pc = "info"
    /\ calls' = [calls EXCEPT !["repo_info"] = @ + 1]
    /\ \/ \E v \in OwnValues("repo_info") :
             /\ phase' = [phase EXCEPT !["repo_info"] = "returned"]
             /\ phaseval' = [phaseval EXCEPT !["repo_info"] = v]
             /\ loc' = [loc EXCEPT !["repo_info"] = v]
             /\ an_pc' = "submit_history"
       \/ /\ phase' = [phase EXCEPT !["repo_info"] = "raised"]
          /\ loc' = [loc EXCEPT !["repo_info"] = Default("repo_info")]
          /\ an_pc' = Resume("repo_info")
          /\ UNCHANGED phaseval
    /\ UNCHANGED <<fut, an_ret>>
    /\ UNCHANGED exceptAn

\* lines 70-72 and 76: the three locals get their defaults, the first task is submitted
SubmitHistory ==
    /\ an_pc = "submit_history"
    /\ loc' = [p \in Phases |-> IF p = "repo_info" THEN loc[p] ELSE Default(p)]
    /\ fut' = [fut EXCEPT !["commit_history"] = "pending"]
    /\ an_pc' = "submit_structure"
    /\ UNCHANGED <<phase, phaseval, calls, an_ret>>
    /\ UNCHANGED exceptAn

\* line 77
SubmitStructure ==
    /\ an_pc = "submit_structure"
    /\ fut' = [fut EXCEPT !["file_structure"] = "pending"]
    /\ an_pc' = "result_history"
    /\ UNCHANGED <<loc, phase, phaseval, calls, an_ret>>
    /\ UNCHANGED exceptAn

\* a pool worker (max_workers=3, so each task gets its own) picks the task up
WorkerStart(t) ==
    /\ fut[t] = "pending"
    /\ fut' = [fut EXCEPT ![t] = "running"]
    /\ phase' = [phase EXCEPT ![t] = "running"]
    /\ calls' = [calls EXCEPT ![t] = @ + 1]
    /\ UNCHANGED <<an_pc, loc, phaseval, an_ret>>
    /\ UNCHANGED exceptAn

\* the task returns: the future holds its value
WorkerReturn(t) ==
    /\ fut[t] = "running"
    /\ \E v \in OwnValues(t) :
          /\ phaseval' = [phaseval EXCEPT ![t] = v]
    /\ fut' = [fut EXCEPT ![t] = "returned"]
    /\ phase' = [phase EXCEPT ![t] = "returned"]
    /\ UNCHANGED <<an_pc, loc, calls, an_ret>>
    /\ UNCHANGED exceptAn

\* the task raises: the future holds the exception
WorkerRaise(t) ==
    /\ fut[t] = "running"
    /\ fut' = [fut EXCEPT ![t] = "raised"]
    /\ phase' = [phase EXCEPT ![t] = "raised"]
    /\ UNCHANGED <<an_pc, loc, phaseval, calls, an_ret>>
    /\ UNCHANGED exceptAn

\* Future.result() of task t, called at position at: blocks until the
\* future is done, then returns the value or re-raises the exception
FutureResult(t, at) ==
    /\ an_pc = at
    /\ FutureDone(t)
    /\ IF fut[t] = "raised"
          THEN /\ loc' = [loc EXCEPT ![t] = Default(t)]
               /\ an_pc' = Resume(t)
          ELSE /\ loc' = [loc EXCEPT ![t] = phaseval[t]]
               /\ an_pc' = IF t = "commit_history" THEN "result_structure" ELSE "shutdown"
    /\ UNCHANGED <<fut, phase, phaseval, calls, an_ret>>
    /\ UNCHANGED exceptAn

\* lines 80-84
ResultHistory == FutureResult("commit_history", "result_history")

\* lines 86-90
ResultStructure == FutureResult("file_structure", "result_structure")

\* end of the with block (line 75): ThreadPoolExecutor.__exit__ is
\* shutdown(wait=True), it joins the workers
ExecutorExit ==
    /\ an_pc = "shutdown"
    /\ \A t \in Tasks : fut[t] \in {"none", "returned", "raised"}
    /\ an_pc' = "important"
    /\ UNCHANGED <<fut, loc, phase, phaseval, calls, an_ret>>
    /\ UNCHANGED exceptAn

\* line 94: self._identify_important_files() is entered
ImportantStart ==
    /\ an_pc = "important"
    /\ an_pc' = "important_running"
    /\ phase' = [phase EXCEPT !["important_files"] = "running"]
    /\ calls' = [calls EXCEPT !["important_files"] = @ + 1]
    /\ UNCHANGED <<fut, loc, phaseval, an_ret>>
    /\ UNCHANGED exceptAn

\* lines 93-97: it returns, or raises into the handler of line 95
ImportantFinish ==
    /\ an_pc = "important_running"
    /\ \/ \E v \in OwnValues("important_files") :
             /\ phase' = [phase EXCEPT !["important_files"] = "returned"]
             /\ phaseval' = [phaseval EXCEPT !["important_files"] = v]
             /\ loc' = [loc EXCEPT !["important_files"] = v]
             /\ an_pc' = "build"
       \/ /\ phase' = [phase EXCEPT !["important_files"] = "raised"]
          /\ loc' = [loc EXCEPT !["important_files"] = Default("important_files")]
          /\ an_pc' = Resume("important_files")
          /\ UNCHANGED phaseval
    /\ UNCHANGED <<fut, calls, an_ret>>
    /\ UNCHANGED exceptAn

\* lines 101-109: the results dict is built from the four locals and returned
BuildResults ==
    /\ an_pc = "build"
    /\ \A t \in Tasks : fut[t] \in {"none", "returned", "raised"}
    /\ an_ret' = [p \in {q \in Phases : loc[q] # "unset"} |-> loc[p]]
    /\ an_pc' = "done"
    /\ UNCHANGED <<fut, loc, phase, phaseval, calls>>
    /\ UNCHANGED exceptAn

AnNext ==
    \/ GetRepoInfo
    \/ SubmitHistory
    \/ SubmitStructure
    \/ \E t \in Tasks : WorkerStart(t)
    \/ \E t \in Tasks : WorkerReturn(t)
    \/ \E t \in Tasks : WorkerRaise(t)
    \/ ResultHistory
    \/ ResultStructure
    \/ ExecutorExit
    \/ ImportantStart
    \/ ImportantFinish
    \/ BuildResults

(***************************************************************************)
(* The git object store                                                    *)
(***************************************************************************)
HashLen     == 3    \* len(commit.hexsha), 40 in git, scaled down
ShortLen    == 2    \* commit.hexsha[:7], scaled down with HashLen
MaxCommits  == 2    \* most commits in a linear repository
NumPaths    == 2    \* paths a tree can hold
MaxFilesArg == 2    \* largest max_files handed to the resolver

HexDigits == {"a", "b"}
HexOrder  == <<"a", "b">>
Blobs     == {1, 2}          \* blob contents a path can have

SeqsUpTo(S, n) == UNION {[1..k -> S] : k \in 0..n}
Hashes  == [1..HashLen -> HexDigits]
Paths   == 1..NumPaths
Trees   == [Paths -> {0} \cup Blobs]  \* 0: the path is not in the tree

\* the reference strings handed to the resolver: every hexadecimal string up
\* to the length of a full hash, as it is, wrapped in whitespace, behind a
\* non-hexadecimal character, or with one inside
HexRefs == SeqsUpTo(HexDigits, HashLen)
RawRefs ==
    HexRefs
    \cup { <<" ">> \o h \o <<" ">> : h \in HexRefs }
    \cup { <<"z">> \o h : h \in HexRefs }
    \cup { <<Head(h), "z">> \o Tail(h) : h \in HexRefs \ {<<>>} }

\* str.startswith
StartsWith(s, p) == Len(p) <= Len(s) /\ SubSeq(s, 1, Len(p)) = p

\* the hash of the i-th commit of a repository whose hashes are fixed
FixedHash(i) ==
    [k \in 1..HashLen |-> HexOrder[(((i - 1) \div (2 ^ (HashLen - k))) % 2) + 1]]

\* tree of the commit d steps above the root of a linear repository
ChainTree(d) ==
    [p \in Paths |-> IF p = 1 THEN 1 ELSE IF d = 0 THEN 0 ELSE 1 + (d % 2)]

\* linear histories with every choice of distinct hashes (up to the naming
\* of the digits: the newest hash starts with the first digit)
ChainRepos ==
    UNION { { [i \in 1..n |-> [hexsha  |-> hs[i],
                               parents |-> IF i < n THEN <<hs[i + 1]>> ELSE <<>>,
                               tree    |-> ChainTree(n - i)]] :
              hs \in {f \in [1..n -> Hashes] :
                         /\ f[1][1] = HexOrder[1]
                         /\ \A i, j \in 1..n : i # j => f[i] # f[j]} } :
            n \in 1..MaxCommits }

\* a root commit, or a commit and its parent, with every choice of trees (up
\* to the naming of the blobs: the root holds first contents only)
TreeRepos ==
    { <<[hexsha |-> FixedHash(1), parents |-> <<>>, tree |-> t]>> :
        t \in [Paths -> {0, 1}] }
    \cup
    { <<[hexsha |-> FixedHash(1), parents |-> <<FixedHash(2)>>, tree |-> t1],
        [hexsha |-> FixedHash(2), parents |-> <<>>, tree |-> t2]>> :
        t1 \in Trees, t2 \in [Paths -> {0, 1}] }

\* a merge of two root commits, with every choice of trees (the roots hold
\* first contents only)
MergeRepos ==
    { <<[hexsha |-> FixedHash(1), parents |-> <<FixedHash(2), FixedHash(3)>>,
         tree |-> t1],
        [hexsha |-> FixedHash(2), parents |-> <<>>, tree |-> t2],
        [hexsha |-> FixedHash(3), parents |-> <<>>, tree |-> t3]>> :
        t1 \in Trees, t2 \in [Paths -> {0, 1}], t3 \in [Paths -> {0, 1}] }

\* the commit object of hash h
CommitOf(h) == repo[CHOOSE i \in 1..Len(repo) : repo[i].hexsha = h]
HasCommit(h) == \E i \in 1..Len(repo) : repo[i].hexsha = h

\* the commits whose hash starts with the abbreviation h
Candidates(h) == {i \in 1..Len(repo) : StartsWith(repo[i].hexsha, h)}

SetToSeq(S) ==
    LET RECURSIVE Build(_, _)
        Build(k, acc) ==
            IF k > NumPaths THEN acc
            ELSE Build(k + 1, IF k \in S THEN Append(acc, k) ELSE acc)
    IN Build(1, <<>>)

Added(pt, ct)   == {p \in Paths : pt[p] = 0 /\ ct[p] # 0}
Deleted(pt, ct) == {p \in Paths : pt[p] # 0 /\ ct[p] = 0}
Changed(pt, ct) == {p \in Paths : pt[p] # ct[p]}

Min(S) == CHOOSE x \in S : \A y \in S : x <= y

\* exact renames git -M pairs up: a deleted path and an added path of equal content
RECURSIVE MatchRenames(_, _, _, _)
MatchRenames(pt, ct, as, ds) ==
    IF as = <<>> THEN {}
    ELSE LET a == Head(as)
             cand == {d \in ds : pt[d] = ct[a]}
         IN IF cand = {} THEN MatchRenames(pt, ct, Tail(as), ds)
            ELSE {<<Min(cand), a>>}
                 \cup MatchRenames(pt, ct, Tail(as), ds \ {Min(cand)})

Renames(pt, ct) == MatchRenames(pt, ct, SetToSeq(Added(pt, ct)), Deleted(pt, ct))

\* git diff-tree -r --name-status parent commit: one line per changed path,
\* no rename detection
NameStatus(pt, ct) ==
    LET ps == SetToSeq(Changed(pt, ct))
    IN [k \in 1..Len(ps) |->
          [status |-> IF pt[ps[k]] = 0 THEN "A"
                      ELSE IF ct[ps[k]] = 0 THEN "D" ELSE "M",
           path   |-> ps[k]]]

\* parent.diff(commit) of GitPython (git diff --raw -M): one Diff per changed
\* path with a_path = b_path = the path, a rename pair giving one Diff with
\* a_path the old and b_path the new path
GitDiff(pt, ct) ==
    LET rn == Renames(pt, ct)
        srcs == {r[1] : r \in rn}
        ps == SetToSeq(Changed(pt, ct) \ srcs)
        src(p) == (CHOOSE r \in rn : r[2] = p)[1]
    IN [k \in 1..Len(ps) |->
          IF \E r \in rn : r[2] = ps[k]
             THEN [new_file |-> FALSE, deleted_file |-> FALSE, renamed |-> TRUE,
                   a_path |-> src(ps[k]), b_path |-> ps[k]]
             ELSE [new_file |-> pt[ps[k]] = 0, deleted_file |-> ct[ps[k]] = 0,
                   renamed |-> FALSE,
                   a_path |-> ps[k], b_path |-> ps[k]]]

\* git ls-tree -r commit: one line per blob
LsTree(ct) == SetToSeq({p \in Paths : ct[p] # 0})

\* the "N files changed" of git show --stat: against the first parent, with
\* rename detection; every blob for a root commit
StatFilesChanged(c) ==
    IF c.parents = <<>> THEN Len(LsTree(c.tree))
    ELSE IF ~HasCommit(c.parents[1]) THEN 0
    ELSE LET pt == CommitOf(c.parents[1]).tree
         IN Cardinality(Changed(pt, c.tree)) - Cardinality(Renames(pt, c.tree))

(***************************************************************************)
(* _get_commit_history                                                     *)
(***************************************************************************)
\* lines 304-310
ChangeTypeOfDiff(d) ==
    IF d.new_file THEN "added"
    ELSE IF d.deleted_file THEN "deleted"
    ELSE IF d.renamed THEN "renamed"
    ELSE "modified"

\* lines 313-320: b_path, else a_path, else 0 (the entry is skipped)
PathOfDiff(d) ==
    IF d.b_path # 0 THEN d.b_path
    ELSE IF d.a_path # 0 THEN d.a_path
    ELSE 0

\* lines 302-331: the loop over one parent's diff index; bad_entries holds
\* the entries (by position) whose processing raises: line 329 logs, and the
\* loop goes on with the next entry
RECURSIVE IndexDiffLoop(_, _, _, _)
IndexDiffLoop(diffs, k, bad_entries, file_changes) ==
    IF k > Len(diffs) THEN file_changes
    ELSE IF k \in bad_entries \/ PathOfDiff(diffs[k]) = 0
            THEN IndexDiffLoop(diffs, k + 1, bad_entries, file_changes)
            ELSE IndexDiffLoop(diffs, k + 1, bad_entries,
                     Append(file_changes,
                            [path |-> PathOfDiff(diffs[k]),
                             change_type |-> ChangeTypeOfDiff(diffs[k])]))

ParentDiffRaisesAny(c, j, bad) ==
    \/ \E i \in 1..Len(c.parents) : <<i, 0>> \in bad
    \/ ~HasCommit(c.parents[j])

\* parent.diff(commit) of line 301 raises: the caller said so (<<j, 0>>), or
\* the parent is not in the store (a shallow clone's boundary)
ParentDiffRaises(c, j, bad) == <<j, 0>> \in bad \/ ~HasCommit(c.parents[j])

\* lines 299-334: the loop over commit.parents; bad holds the fault points
\* of this commit: <<j, 0>> the diff against the j-th parent raises (line
\* 332 logs, the loop goes on), <<j, k>> the k-th entry of that diff raises
RECURSIVE IndexParentsLoop(_, _, _, _)
IndexParentsLoop(c, j, bad, file_changes) ==
    IF j > Len(c.parents) THEN file_changes
    ELSE IF ParentDiffRaises(c, j, bad)
            THEN IndexParentsLoop(c, j + 1, bad, file_changes)
            ELSE IndexParentsLoop(c, j + 1, bad,
                     IndexDiffLoop(GitDiff(CommitOf(c.parents[j]).tree, c.tree),
                                   1, {k \in 1..NumPaths : <<j, k>> \in bad},
                                   file_changes))

IndexFileChanges(c, bad) == IndexParentsLoop(c, 1, bad, <<>>)

\* lines 286-294 and 337-339: the record of one commit
IndexRecord(c, bad) ==
    LET file_changes == IndexFileChanges(c, bad)
    IN [kind         |-> "commit",
        hash         |-> c.hexsha,
        short_hash   |-> SubSeq(c.hexsha, 1, ShortLen),
        stats        |-> [files_changed |-> Len(file_changes), note |-> FALSE],
        file_changes |-> file_changes]

WindowOldest(max_commits) ==
    SubSeq(repo, (IF max_commits < Len(repo) THEN Len(repo) - max_commits ELSE 0) + 1,
           Len(repo))

\* list(self.repo.iter_commits())[:max_commits]
Window(max_commits) ==
    SubSeq(repo, 1, IF max_commits < Len(repo) THEN max_commits ELSE Len(repo))

\* the places of lines 299-331 where the work on commit c can raise: the diff
\* against a parent, or one entry of a diff that was obtained
FaultPoints(c) ==
    {<<j, 0>> : j \in 1..Len(c.parents)}
    \cup {f \in (1..Len(c.parents)) \X (1..NumPaths) :
             /\ HasCommit(c.parents[f[1]])
             /\ f[2] <= Len(GitDiff(CommitOf(c.parents[f[1]]).tree, c.tree))}

\* the fault sets that differ in what raises: an entry of a diff can raise
\* only if the diff itself was obtained.  entry_faults: whether the
\* environment makes single entries raise, or whole diffs only
SaneFaults(c, entry_faults) ==
    {b \in SUBSET FaultPoints(c) :
        \A f \in b : f[2] > 0 => (entry_faults /\ <<f[1], 0>> \notin b)}

\* one fault set for each commit of the window w, from the i-th on
RECURSIVE FaultSeqs(_, _, _)
FaultSeqs(w, i, entry_faults) ==
    IF i > Len(w) THEN {<<>>}
    ELSE {<<b>> \o rest : b \in SaneFaults(w[i], entry_faults),
                          rest \in FaultSeqs(w, i + 1, entry_faults)}

\* lines 281-352.  A call either runs through, or iter_commits raises
\* (nothing was appended), or reading the metadata of the k-th commit raises
\* (the records of the commits before it were already appended); in the two
\* last cases line 350 returns [].  bad[i]: the fault points of the i-th
\* commit.
IndexOutcomes(max_commits, entry_faults) ==
    LET w == Window(max_commits)
        recs(bad) == [i \in 1..Len(w) |-> IndexRecord(w[i], bad[i])]
        Bads == FaultSeqs(w, 1, entry_faults)
    IN { [ret |-> recs(b), appended |-> recs(b), raised |-> FALSE, bad |-> b] :
            b \in Bads }
       \cup { [ret |-> <<>>, appended |-> <<>>, raised |-> TRUE, bad |-> <<>>] }
       \cup { [ret |-> <<>>, appended |-> SubSeq(recs(b), 1, k - 1),
               raised |-> TRUE, bad |-> SubSeq(b, 1, k - 1)] :
                 b \in Bads, k \in 1..Len(w) }

NoCall == [kind |-> "nocall"]

\* one _get_commit_history call (lines 279-352)
\* max_runs: the calls made on the analyzer (analyze_repo makes one)
IndexCall(entry_faults, max_runs) ==
    /\ hist_runs < max_runs
    /\ res = NoCall
    /\ \E max_commits \in 0..MaxCommits :
          \E o \in IndexOutcomes(max_commits, entry_faults) :
             /\ commit_history' = commit_history \o o.appended
             /\ hist_ret' = o.ret
             /\ hist_call' = [kind |-> "call", max_commits |-> max_commits,
                              raised |-> o.raised, bad |-> o.bad]
    /\ hist_runs' = hist_runs + 1
    /\ UNCHANGED <<repo, res>>
    /\ UNCHANGED exceptRs

\* the call in an environment where a diff raises as a whole or not at all
GetCommitHistory == IndexCall(FALSE, 1)

\* the call in an environment where single diff entries raise as well
GetCommitHistoryEntryFaults == IndexCall(TRUE, 1)

MaxIndexRuns == 2    \* most _get_commit_history calls on one analyzer

\* the call on an analyzer that is indexed again
GetCommitHistoryAgain == IndexCall(FALSE, MaxIndexRuns)

RxNext == GetCommitHistoryAgain

(***************************************************************************)
(* get_commit_by_hash                                                      *)
(***************************************************************************)
None      == [kind |-> "none"]          \* return None
ErrorDict == [kind |-> "error_dict"]    \* the dict of lines 592-595

IsSpace(ch) == ch = " "
IsHex(ch)   == ch \in HexDigits

\* str.strip()
RECURSIVE LStrip(_)
LStrip(s) == IF s # <<>> /\ IsSpace(Head(s)) THEN LStrip(Tail(s)) ELSE s
RECURSIVE RStrip(_)
RStrip(s) ==
    IF s # <<>> /\ IsSpace(s[Len(s)]) THEN RStrip(SubSeq(s, 1, Len(s) - 1)) ELSE s
Strip(s) == RStrip(LStrip(s))

\* lines 364-371: strip, then drop every non-hexadecimal character
Sanitize(raw) ==
    LET commit_hash == Strip(raw)
        cleaned_hash == SelectSeq(commit_hash, IsHex)
    IN IF cleaned_hash # commit_hash THEN cleaned_hash ELSE commit_hash

\* line 381
CacheMatchExact(h, commit) == h = commit.hash
CacheMatch(h, commit) ==
    \/ h = commit.hash
    \/ StartsWith(commit.hash, h)
    \/ commit.short_hash = h

\* lines 379-382: index of the first cached record that matches, 0 if none
RECURSIVE CacheScanFrom(_, _)
CacheScanFrom(h, i) ==
    IF i > Len(commit_history) THEN 0
    ELSE IF CacheMatch(h, commit_history[i]) THEN i
    ELSE CacheScanFrom(h, i + 1)

CacheScan(h) == CacheScanFrom(h, 1)

\* lines 488-494
ChangeTypeOfStatus(status) ==
    IF status = "A" THEN "added"
    ELSE IF status = "D" THEN "deleted"
    ELSE IF status = "R" THEN "renamed"
    ELSE "modified"

\* the ceiling test of lines 480, 514 and 558
LimitReached(file_count, max_files) == file_count >= max_files

\* lines 475-504: the loop over the name-status lines
RECURSIVE NameStatusLoop(_, _, _)
NameStatusLoop(lines, max_files, file_changes) ==
    IF lines = <<>> THEN file_changes
    ELSE IF LimitReached(Len(file_changes), max_files) THEN file_changes
    ELSE NameStatusLoop(Tail(lines), max_files,
             Append(file_changes,
                    [path |-> Head(lines).path,
                     change_type |-> ChangeTypeOfStatus(Head(lines).status)]))

\* lines 512-544: the loop of the fallback over the diff index
RECURSIVE DiffLoop(_, _, _)
DiffLoop(diffs, max_files, file_changes) ==
    IF diffs = <<>> THEN file_changes
    ELSE IF LimitReached(Len(file_changes), max_files) THEN file_changes
    ELSE IF PathOfDiff(Head(diffs)) = 0
            THEN DiffLoop(Tail(diffs), max_files, file_changes)
    ELSE DiffLoop(Tail(diffs), max_files,
             Append(file_changes,
                    [path |-> PathOfDiff(Head(diffs)),
                     change_type |-> ChangeTypeOfDiff(Head(diffs))]))

\* lines 553-572: the loop over the ls-tree lines of a root commit
RECURSIVE LsTreeLoop(_, _, _)
LsTreeLoop(lines, max_files, file_changes) ==
    IF lines = <<>> THEN file_changes
    ELSE IF LimitReached(Len(file_changes), max_files) THEN file_changes
    ELSE LsTreeLoop(Tail(lines), max_files,
             Append(file_changes, [path |-> Head(lines), change_type |-> "added"]))

\* lines 456-574: the file changes and the VCS commands used for them; each
\* command either answers or raises
FileChangeOutcomes(c, max_files) ==
    IF c.parents # <<>>
       THEN LET known == HasCommit(c.parents[1])
                pt == CommitOf(c.parents[1]).tree
            IN (IF known
                   THEN { [file_changes |-> NameStatusLoop(NameStatus(pt, c.tree), max_files, <<>>),
                           strategy |-> "diff_tree", vcs |-> <<"diff_tree">>],
                          [file_changes |-> DiffLoop(GitDiff(pt, c.tree), max_files, <<>>),
                           strategy |-> "diff", vcs |-> <<"diff_tree", "diff">>] }
                   ELSE {})
               \cup { [file_changes |-> <<>>, strategy |-> "none",
                       vcs |-> <<"diff_tree", "diff">>] }
       ELSE { [file_changes |-> LsTreeLoop(LsTree(c.tree), max_files, <<>>),
               strategy |-> "ls_tree", vcs |-> <<"ls_tree">>],
              [file_changes |-> <<>>, strategy |-> "none", vcs |-> <<"ls_tree">>] }

\* lines 411-453: files_changed parsed from the summary line of
\* git show --stat; 0 when the command raises or prints no summary
StatOutcomes(c) == {StatFilesChanged(c), 0}

\* lines 576-579
Truncated(file_count, files_changed, max_files) ==
    file_count = max_files /\ files_changed > max_files

\* lines 401-409 and 576-584: the record built from the commit object
BuildRecord(c, max_files, files_changed, fc) ==
    LET cut == Truncated(Len(fc.file_changes), files_changed, max_files)
    IN [kind         |-> "commit",
        hash         |-> c.hexsha,
        short_hash   |-> SubSeq(c.hexsha, 1, ShortLen),
        stats        |-> [files_changed |-> IF cut THEN max_files ELSE files_changed,
                          note |-> cut],
        file_changes |-> fc.file_changes]

\* what a raise of self.repo.commit(...) at line 399 ends in
CommitExcKinds ==
    {"ValueError_check_that_it_exists", "ValueError", "GitCommandError_bad_object",
     "GitCommandError", "Exception"}

\* lines 585-601
OnCommitRaise(exc) ==
    CASE exc = "ValueError_check_that_it_exists" -> None       \* line 588
      [] exc = "ValueError"                      -> None       \* falls off the end
      [] exc = "GitCommandError_bad_object"      -> ErrorDict  \* line 592
      [] exc = "GitCommandError"                 -> None       \* line 598
      [] exc = "Exception"                       -> None       \* line 601

\* lines 397-601: self.repo.commit(h) and what follows.  The object store
\* resolves an abbreviation that names exactly one commit.
LookupOutcomes(ref, h, max_files, vcs) ==
    { [kind |-> "call", ref |-> ref, max_files |-> max_files,
       result |-> OnCommitRaise(exc), strategy |-> "none", stat_ok |-> FALSE,
       vcs |-> vcs \o <<"commit">>] : exc \in CommitExcKinds }
    \cup
    (IF Cardinality(Candidates(h)) = 1
        THEN LET c == repo[CHOOSE i \in Candidates(h) : TRUE]
             IN { [kind |-> "call", ref |-> ref, max_files |-> max_files,
                   result |-> BuildRecord(c, max_files, st, fc),
                   strategy |-> fc.strategy,
                   stat_ok |-> st = StatFilesChanged(c),
                   vcs |-> vcs \o <<"commit", "show">> \o fc.vcs] :
                  st \in StatOutcomes(c), fc \in FileChangeOutcomes(c, max_files) }
        ELSE {})

\* lines 361-605: every outcome of get_commit_by_hash(raw, max_files)
ResolveOutcomes(raw, max_files) ==
    LET h == Sanitize(raw)
        call(result, vcs) ==
            [kind |-> "call", ref |-> h, max_files |-> max_files, result |-> result,
             strategy |-> "none", stat_ok |-> FALSE, vcs |-> vcs]
    IN IF h = <<>> THEN {call(None, <<>>)}                               \* line 376
       ELSE IF CacheScan(h) # 0
               THEN {call(commit_history[CacheScan(h)], <<>>)}           \* line 382
       ELSE \* lines 386-395: git rev-parse answers the full hash, or raises
            \* GitCommandError (the reference is kept), or raises otherwise
            \* (line 603)
            (IF Cardinality(Candidates(h)) = 1
                THEN LookupOutcomes(h, repo[CHOOSE i \in Candidates(h) : TRUE].hexsha,
                                    max_files, <<"rev_parse">>)
                ELSE {})
            \cup LookupOutcomes(h, h, max_files, <<"rev_parse">>)
            \cup {call(None, <<"rev_parse">>)}

\* one get_commit_by_hash call (lines 354-605) for a reference of raws
ResolveCall(raws) ==
    /\ res = NoCall
    /\ \E raw \in raws, max_files \in 1..MaxFilesArg :
          \E o \in ResolveOutcomes(raw, max_files) : res' = o
    /\ UNCHANGED <<repo, commit_history, hist_ret, hist_runs, hist_call>>
    /\ UNCHANGED exceptRs

GetCommitByHash == ResolveCall(RawRefs)

\* the call for the full hash of a commit of the repository
GetCommitByFullHash == ResolveCall({repo[i].hexsha : i \in 1..Len(repo)})

\* the indexer, and the resolver asked for the commits of the repository
CmNext ==
    \/ GetCommitHistory
    \/ GetCommitByFullHash

\* the indexer alone
IxNext == GetCommitHistoryEntryFaults

RsNext ==
    \/ GetCommitHistory
    \/ GetCommitByHash

(***************************************************************************)
(* get_file_diff                                                           *)
(***************************************************************************)
\* The blobs of the repositories get_file_diff runs over, by the offset of
\* their first NUL byte (-1: none): two texts, and one blob at each side of
\* the two sample sizes.
NulOffsets == <<-1, -1, 0, 1023, 1024, 8191, 8192>>
DiffBlobs  == 1..Len(NulOffsets)
FirstNul(b) == NulOffsets[b]

InitialSample == 1024    \* line 617: blob.data_stream.read(1024)
AddedSample   == 8192    \* line 637: blob.data_stream.read(8192)
DeletedSample == 8192    \* line 660: blob.data_stream.read(8192)

\* b'\x00' in blob.data_stream.read(n)
HasNulIn(b, n) == FirstNul(b) >= 0 /\ FirstNul(b) < n

\* a tree that holds blob b (0: nothing) at the first path and nothing else
DiffTree(b) == [p \in Paths |-> IF p = 1 THEN b ELSE 0]

\* the modes the entry of blob b can have: exec is the set of executable paths
ExecChoices(b) == IF b = 0 THEN {{}} ELSE {{}, {1}}

\* a root commit, or a commit and its parent, with every blob and mode at
\* the first path
DiffRepos ==
    { <<[hexsha |-> FixedHash(1), parents |-> <<>>, tree |-> DiffTree(b),
         exec |-> {}]>> : b \in {0} \cup DiffBlobs }
    \cup
    UNION { { <<[hexsha |-> FixedHash(1), parents |-> <<FixedHash(2)>>,
                 tree |-> DiffTree(b1), exec |-> x1],
                [hexsha |-> FixedHash(2), parents |-> <<>>,
                 tree |-> DiffTree(b2), exec |-> x2]>> :
                x1 \in ExecChoices(b1), x2 \in ExecChoices(b2) } :
            b1 \in {0} \cup DiffBlobs, b2 \in {0} \cup DiffBlobs }

\* what the environment makes fail during one call: repo.commit, the reads
\* of the parent's tree and of the commit's tree, the read of the blob (and
\* with which exception), the two git diff commands
DiffFaults ==
    [commit : BOOLEAN, parent_tree : BOOLEAN, commit_tree : BOOLEAN,
     read : {"ok", "unicode", "other"}, diff : BOOLEAN, summary : BOOLEAN]

NoFaults ==
    [commit |-> FALSE, parent_tree |-> FALSE, commit_tree |-> FALSE,
     read |-> "ok", diff |-> FALSE, summary |-> FALSE]

\* no get_file_diff call was made
NoDiff == [kind |-> "nocall"]

\* a returned string: its fixed part, and the content (a blob) or the diff
\* (its sections) it carries
Str(marker, payload) == [kind |-> "str", marker |-> marker, payload |-> payload]
\* an exception on its way up
Raise(exc) == [kind |-> "raise", exc |-> exc]
IsRaise(x) == x.kind = "raise"

\* tree / file_path: KeyError when the path is not in the tree
TreeLookup(c, file_path, fault) ==
    IF fault THEN Raise("other")
    ELSE IF c.tree[file_path] = 0 THEN Raise("KeyError")
    ELSE [kind |-> "blob", id |-> c.tree[file_path]]

\* lines 616-622, 635-648, 658-671: find the blob, sample it, return the
\* binary marker or the content under the text marker
SniffBody(c, file_path, tree_fault, f, sample, text_marker, binary_marker) ==
    LET blob == TreeLookup(c, file_path, tree_fault)
    IN IF IsRaise(blob) THEN blob
       ELSE IF f.read # "ok" THEN Raise(f.read)
       ELSE IF HasNulIn(blob.id, sample) THEN Str(binary_marker, <<>>)
       ELSE Str(text_marker, <<blob.id>>)

\* lines 623-626, 649-652, 672-675
SniffHandler(r, error_marker) ==
    IF ~IsRaise(r) THEN r
    ELSE IF r.exc = "unicode" THEN Str("Binary file (no text diff available)", <<>>)
    ELSE Str(error_marker, <<>>)

\* lines 613-626
InitialCase(c, file_path, f) ==
    SniffHandler(SniffBody(c, file_path, f.commit_tree, f, InitialSample,
                           "Initial commit, file added:",
                           "File was added in this commit (binary content)"),
                 "Error retrieving diff:")

\* lines 634-652
AddedCase(c, file_path, f) ==
    SniffHandler(SniffBody(c, file_path, f.commit_tree, f, AddedSample,
                           "File was added in this commit:",
                           "File was added in this commit (binary content)"),
                 "Error retrieving added file content:")

\* lines 657-675
DeletedCase(parent, file_path, f) ==
    SniffHandler(SniffBody(parent, file_path, f.parent_tree, f, DeletedSample,
                           "File was deleted in this commit. Previous content:",
                           "File was deleted in this commit (binary content)"),
                 "Error retrieving deleted file content:")

\* the mode of the entry at file_path differs between the two commits
ModeChanged(parent, c, file_path) ==
    (file_path \in parent.exec) # (file_path \in c.exec)

\* git diff parent..commit -- path: the sections of its output, a mode
\* header when the mode of the entry changed, hunks when its blob changed
GitDiffText(parent, c, file_path) ==
    (IF ModeChanged(parent, c, file_path)
        THEN <<[section |-> "old mode / new mode", from |-> 0, to |-> 0]>>
        ELSE <<>>)
    \o (IF parent.tree[file_path] # c.tree[file_path]
           THEN <<[section |-> "hunks", from |-> parent.tree[file_path],
                   to |-> c.tree[file_path]]>>
           ELSE <<>>)

\* git diff --summary parent..commit -- path, for a path in both trees
GitDiffSummary(parent, c, file_path) ==
    IF ModeChanged(parent, c, file_path) THEN <<"mode change">> ELSE <<>>

ModifiedBodyNoEmptyCheck(parent, c, file_path, f) ==
    IF f.diff THEN Raise("other")
    ELSE Str("diff", GitDiffText(parent, c, file_path))

\* lines 679-701
ModifiedBody(parent, c, file_path, f) ==
    IF f.diff THEN Raise("other")
    ELSE LET diff_text == GitDiffText(parent, c, file_path)
         IN IF diff_text = <<>>
               THEN IF f.summary THEN Raise("other")
                    ELSE IF GitDiffSummary(parent, c, file_path) # <<>>
                            THEN Str("File metadata changed (permissions or mode)", <<>>)
                            ELSE Str("No changes detected in this file for this commit", <<>>)
               ELSE Str("diff", diff_text)

\* lines 702-704
ModifiedCase(parent, c, file_path, f) ==
    LET r == ModifiedBody(parent, c, file_path, f)
    IN IF IsRaise(r) THEN Str("Could not retrieve diff:", <<>>) ELSE r

ParentCaseNoDeleted(c, file_path, f) ==
    LET parent == CommitOf(c.parents[1])
    IN IF IsRaise(TreeLookup(parent, file_path, f.parent_tree))
          THEN AddedCase(c, file_path, f)
       ELSE ModifiedCase(parent, c, file_path, f)

\* lines 627-704: a commit with a parent
ParentCase(c, file_path, f) ==
    LET parent == CommitOf(c.parents[1])
    IN IF IsRaise(TreeLookup(parent, file_path, f.parent_tree))
          THEN AddedCase(c, file_path, f)
       ELSE IF IsRaise(TreeLookup(c, file_path, f.commit_tree))
          THEN DeletedCase(parent, file_path, f)
       ELSE ModifiedCase(parent, c, file_path, f)

\* lines 610-704
DiffBody(commit_hash, file_path, f) ==
    IF f.commit \/ ~HasCommit(commit_hash) THEN Raise("other")
    ELSE LET c == CommitOf(commit_hash)
         IN IF c.parents = <<>> THEN InitialCase(c, file_path, f)
            ELSE ParentCase(c, file_path, f)

OuterHandlerNone(r) == r

\* lines 706-708
OuterHandler(r) == IF IsRaise(r) THEN Str("Error retrieving diff:", <<>>) ELSE r

\* the references handed in: the commits of the store and an unknown one
DiffRefs == {FixedHash(1), FixedHash(2), FixedHash(3)}

\* one get_file_diff call (lines 607-708)
GetFileDiff ==
    /\ diff_res = NoDiff
    /\ \E commit_hash \in DiffRefs, file_path \in Paths, f \in DiffFaults :
          diff_res' = [kind |-> "call", commit_hash |-> commit_hash,
                       file_path |-> file_path, faults |-> f,
                       out |-> OuterHandler(DiffBody(commit_hash, file_path, f))]
    /\ UNCHANGED <<anVars, rsVars, crVars, csVars, svVars>>

DfNext == GetFileDiff

(***************************************************************************)
(* _get_file_structure                                                     *)
(***************************************************************************)
MaxCrawls == 2    \* most _get_file_structure calls on one analyzer

\* dicts keep insertion order: a sequence of keys with their values
DictHas(d, k) == \E i \in 1..Len(d) : d[i].key = k
DictGet(d, k) == d[CHOOSE i \in 1..Len(d) : d[i].key = k].value
DictKeys(d)   == {d[i].key : i \in 1..Len(d)}
\* d[k] = v: a new key goes to the end, a known key keeps its place
DictPut(d, k, v) ==
    IF DictHas(d, k)
       THEN [i \in 1..Len(d) |-> IF d[i].key = k THEN [key |-> k, value |-> v] ELSE d[i]]
       ELSE Append(d, [key |-> k, value |-> v])

\* the entries of the working tree, in the order os.walk meets them: the
\* files of the root, then those of each directory
CrawlFiles ==
    << [dir |-> <<>>,       file |-> "README.md"],
       [dir |-> <<>>,       file |-> "logo.PNG"],
       [dir |-> <<>>,       file |-> ".env"],
       [dir |-> <<".git">>, file |-> "config"],
       [dir |-> <<"src">>,  file |-> "a.py"] >>

\* name.startswith('.')
StartsWithDot(name) == name \in {".env", ".git"}
\* os.path.splitext(file)[1]
ExtOf(file) ==
    CASE file = "README.md" -> ".md"
      [] file = "logo.PNG"  -> ".PNG"
      [] file = "a.py"      -> ".py"
      [] OTHER              -> ""
\* ext.lower()
Lower(ext) == IF ext = ".PNG" THEN ".png" ELSE ext

\* lines 716-725
binary_extensions ==
    {".jpg", ".jpeg", ".png", ".gif", ".ico", ".bmp", ".tiff", ".webp",
     ".pdf", ".doc", ".docx", ".xls", ".xlsx", ".ppt", ".pptx",
     ".zip", ".tar", ".gz", ".rar", ".7z",
     ".exe", ".dll", ".so", ".dylib", ".bin",
     ".mp3", ".mp4", ".wav", ".avi", ".mov", ".flv",
     ".pyc", ".pyo", ".pyd", ".jar", ".class", ".o", ".a", ".lib"}

\* a string: its first 5000 characters and the rest
Text(head, tail) == [kind |-> "text", head |-> head, tail |-> tail]
Texts == {Text(1, 1), Text(1, 2), Text(2, 1)}

\* "[Binary content]"
BinaryMarker == [kind |-> "marker", head |-> 0, tail |-> 0]

\* what is on disk at an entry: nothing, something that is not a regular
\* file (os.path.isfile is false), a file whose read raises (not UTF-8, no
\* permission, I/O error), or a text
OnDisk(kind) == [kind |-> kind, head |-> 0, tail |-> 0]
DiskStates == {OnDisk("absent"), OnDisk("special"), OnDisk("unreadable")} \cup Texts

\* the working trees: the dot entries are there, the image is there or not
WorkTrees ==
    {w \in [1..Len(CrawlFiles) -> DiskStates] :
        /\ w[2].kind \in {"absent", "unreadable"}
        /\ w[3] = Text(1, 1)
        /\ w[4] = Text(1, 1)}

\* self.model.encode(content[:5000])
Encode(content) == [vec |-> content.head]

\* os.path.join(rel_path, file), as its parts
KeyOf(e) == e.dir \o <<e.file>>

Leaf == [leaf |-> TRUE, children |-> <<>>]        \* None
DirNode(children) == [leaf |-> FALSE, children |-> children]

\* lines 765-770: the level of the directory, created on the way
RECURSIVE EnsureDir(_, _)
EnsureDir(level, path_parts) ==
    IF path_parts = <<>> THEN level
    ELSE LET part == Head(path_parts)
             sub  == IF DictHas(level, part) THEN DictGet(level, part).children
                     ELSE <<>>
         IN DictPut(level, part, DirNode(EnsureDir(sub, Tail(path_parts))))

\* file_structure[file] = None / current_level[file] = None
RECURSIVE PutLeaf(_, _, _)
PutLeaf(level, path_parts, file) ==
    IF path_parts = <<>> THEN DictPut(level, file, Leaf)
    ELSE LET part == Head(path_parts)
         IN DictPut(level, part,
                    DirNode(PutLeaf(DictGet(level, part).children,
                                    Tail(path_parts), file)))

\* the directory is walked: none of its parts was pruned by line 729
Walked(dir) == \A i \in 1..Len(dir) : ~StartsWithDot(dir[i])

CrawlFileOnce(st, e, disk, enc) ==
    IF DictHas(st.contents, KeyOf(e)) THEN st
    ELSE LET k == KeyOf(e)
             listed == [st EXCEPT !.structure = PutLeaf(@, e.dir, e.file)]
         IN IF StartsWithDot(e.file) THEN st
            ELSE [listed EXCEPT !.contents = DictPut(@, k, disk)]

\* lines 737-761 and 773-797: one file of a walked directory.  st: the two
\* dicts of the analyzer, the structure being built, whether an exception
\* left the crawl; disk: what is at the entry; enc: how model.encode ends
\* for it ("ok", "oserror": raises an OSError, "error": raises another
\* exception)
CrawlFile(st, e, disk, enc) ==
    LET k == KeyOf(e)
        listed == [st EXCEPT !.structure = PutLeaf(@, e.dir, e.file)]
    IN IF StartsWithDot(e.file) THEN st
       ELSE IF Lower(ExtOf(e.file)) \in binary_extensions
          THEN [listed EXCEPT !.contents = DictPut(@, k, BinaryMarker)]
       ELSE IF disk.kind = "special" THEN st
       ELSE IF disk.kind = "unreadable"
          THEN [listed EXCEPT !.contents = DictPut(@, k, BinaryMarker)]
       ELSE IF enc = "ok"
          THEN [listed EXCEPT !.contents = DictPut(@, k, disk),
                              !.embeddings = DictPut(@, k, Encode(disk))]
       ELSE IF enc = "oserror"
          THEN [listed EXCEPT !.contents = DictPut(@, k, BinaryMarker)]
       ELSE [st EXCEPT !.contents = DictPut(@, k, disk), !.raised = TRUE]

\* lines 727-797, one round: the i-th entry of the working tree w
CrawlEntry(st, i, w, enc) ==
    LET e == CrawlFiles[i]
    IN IF w[i].kind = "absent" \/ ~Walked(e.dir) THEN st
       ELSE CrawlFile([st EXCEPT !.structure = EnsureDir(@, e.dir)], e, w[i], enc)

\* lines 727-797: the walk from the i-th entry on
RECURSIVE CrawlFrom(_, _, _, _)
CrawlFrom(st, i, w, encs) ==
    IF i > Len(CrawlFiles) \/ st.raised THEN st
    ELSE CrawlFrom(CrawlEntry(st, i, w, encs[i]), i + 1, w, encs)

\* the i-th entry of the working tree w is read and handed to model.encode:
\* a text in a walked directory, not a dot file, no binary extension
Encoded(w, i) ==
    /\ w[i] \in Texts
    /\ Walked(CrawlFiles[i].dir)
    /\ ~StartsWithDot(CrawlFiles[i].file)
    /\ Lower(ExtOf(CrawlFiles[i].file)) \notin binary_extensions

\* how model.encode ends for each entry of the working tree w, from the
\* i-th on: it is called for the texts that are read only
RECURSIVE EncChoices(_, _)
EncChoices(w, i) ==
    IF i > Len(w) THEN {<<>>}
    ELSE {<<enc>> \o rest :
             enc \in (IF Encoded(w, i) THEN {"ok", "oserror", "error"} ELSE {"ok"}),
             rest \in EncChoices(w, i + 1)}

\* the calls of model.encode that raised in a crawl: those made, up to the
\* one that left the crawl
EncFailed(encs) ==
    {i \in 1..Len(encs) : encs[i] # "ok" /\ \A j \in 1..(i - 1) : encs[j] # "error"}

\* the calls made, how the last one ended, the entries for which
\* model.encode raised in it, whether it repeated a call that returned with
\* the working tree untouched in between, and whether the tree was edited
\* since
NoCrawl == [runs |-> 0, last |-> "none", enc_failed |-> {},
            repeat |-> FALSE, edited |-> FALSE]

\* one _get_file_structure call (lines 710-799)
GetFileStructure ==
    /\ crawl.runs < MaxCrawls
    /\ fsearch = NoCall
    /\ \E encs \in EncChoices(worktree, 1) :
          /\ LET st == CrawlFrom([contents |-> file_contents,
                                  embeddings |-> file_embeddings,
                                  structure |-> <<>>, raised |-> FALSE],
                                 1, worktree, encs)
             IN /\ file_contents' = st.contents
                /\ file_embeddings' = st.embeddings
                /\ file_structure' = IF st.raised THEN <<>> ELSE st.structure
                /\ crawl' = [runs |-> crawl.runs + 1,
                             last |-> IF st.raised THEN "raised" ELSE "returned",
                             enc_failed |-> EncFailed(encs),
                             repeat |-> crawl.last = "returned" /\ ~crawl.edited,
                             edited |-> FALSE]
    /\ UNCHANGED <<worktree, fsearch>>
    /\ UNCHANGED <<anVars, rsVars, dfVars, csVars, svVars>>

\* between two crawls the working tree changes at one entry
EditTree ==
    /\ crawl.runs \in 1..(MaxCrawls - 1)
    /\ ~crawl.edited
    /\ fsearch = NoCall
    /\ \E w \in WorkTrees :
          /\ Cardinality({i \in 1..Len(CrawlFiles) : w[i] # worktree[i]}) = 1
          /\ worktree' = w
    /\ crawl' = [crawl EXCEPT !.edited = TRUE]
    /\ UNCHANGED <<file_contents, file_embeddings, file_structure, fsearch>>
    /\ UNCHANGED <<anVars, rsVars, dfVars, csVars, svVars>>

(***************************************************************************)
(* search_relevant_files                                                   *)
(***************************************************************************)
MaxTopK == 2    \* largest top_k handed to search_relevant_files

\* cosine similarities, as levels: what matters is how they compare
SimLevels == {0, 1}

\* the embedding vectors there are, and what a query makes of them: the
\* cosine similarity of lines 841-843 is a function of the two vectors
Vectors == {Encode(t) : t \in Texts}
QuerySims == [Vectors -> SimLevels]

\* lines 839-844: similarities, a dict in the order of file_embeddings
Similarities(embeddings, sim) ==
    [i \in 1..Len(embeddings) |->
        [key |-> embeddings[i].key, value |-> sim[embeddings[i].value]]]

SortedDescTiesReversed(items) ==
    LET rank(i) == 1 + Cardinality({j \in 1..Len(items) :
                          \/ items[j].value > items[i].value
                          \/ items[j].value = items[i].value /\ j > i})
    IN [n \in 1..Len(items) |-> items[CHOOSE i \in 1..Len(items) : rank(i) = n]]

\* sorted(items, key=lambda x: x[1], reverse=True): by descending value;
\* the sort is stable, and reverse keeps the order of equal items
SortedDesc(items) ==
    LET rank(i) == 1 + Cardinality({j \in 1..Len(items) :
                          \/ items[j].value > items[i].value
                          \/ items[j].value = items[i].value /\ j < i})
    IN [n \in 1..Len(items) |-> items[CHOOSE i \in 1..Len(items) : rank(i) = n]]

TopKPlusOne(items, top_k) ==
    SubSeq(items, 1, IF top_k + 1 < Len(items) THEN top_k + 1 ELSE Len(items))

\* items[:top_k], for top_k >= 0
TopK(items, top_k) ==
    SubSeq(items, 1, IF top_k < Len(items) THEN top_k ELSE Len(items))

\* lines 832-851
SearchRelevantFiles(sim, top_k) ==
    IF file_embeddings = <<>> THEN <<>>
    ELSE LET sorted_files == SortedDesc(Similarities(file_embeddings, sim))
             top == TopK(sorted_files, top_k)
         IN [n \in 1..Len(top) |->
                [file_path |-> top[n].key,
                 content |-> DictGet(file_contents, top[n].key)]]

\* one search_relevant_files call
SearchFiles ==
    /\ fsearch = NoCall
    /\ \E sim \in QuerySims, top_k \in 0..MaxTopK :
          fsearch' = [kind |-> "call", sim |-> sim, top_k |-> top_k,
                      result |-> SearchRelevantFiles(sim, top_k)]
    /\ UNCHANGED <<worktree, file_contents, file_embeddings, file_structure, crawl>>
    /\ UNCHANGED <<anVars, rsVars, dfVars, csVars, svVars>>

\* the crawls of an analyzer over a working tree that changes
CrNext ==
    \/ GetFileStructure
    \/ EditTree

\* the crawls of an analyzer and the searches over what they embedded
FsNext ==
    \/ GetFileStructure
    \/ SearchFiles

(***************************************************************************)
(* search_commit_history                                                   *)
(***************************************************************************)
MaxHistory == 6    \* most commits of the repository the search runs over
CommitCap  == 5    \* line 876: [:5]

\* the linear repository of n commits
LongChain(n) ==
    [i \in 1..n |-> [hexsha  |-> FixedHash(i),
                     parents |-> IF i < n THEN <<FixedHash(i + 1)>> ELSE <<>>,
                     tree    |-> ChainTree(n - i)]]

\* what a query makes of the commits: the cosine similarity of lines
\* 870-872 between the query and the embedding of the commit's message
CommitSims == [{FixedHash(i) : i \in 1..MaxHistory} -> SimLevels]

\* lines 863-873: the similarities, a dict keyed by hash, in the order in
\* which the hashes are first met in the history
RECURSIVE CommitSimilarities(_, _, _)
CommitSimilarities(history, sim, similarities) ==
    IF history = <<>> THEN similarities
    ELSE CommitSimilarities(Tail(history), sim,
             DictPut(similarities, Head(history).hash, sim[Head(history).hash]))

\* lines 855-880
SearchCommitHistory(sim) ==
    IF commit_history = <<>> THEN <<>>
    ELSE LET similarities   == CommitSimilarities(commit_history, sim, <<>>)
             sorted_commits == TopK(SortedDesc(similarities), CommitCap)
         IN SelectSeq(commit_history,
                      LAMBDA commit : commit.hash \in DictKeys(sorted_commits))

\* one search_commit_history call
SearchCommits ==
    /\ csearch = NoCall
    /\ \E sim \in CommitSims :
          /\ \A i \in 1..MaxHistory : ~HasCommit(FixedHash(i)) => sim[FixedHash(i)] = 0
          /\ csearch' = [kind |-> "call", sim |-> sim,
                         result |-> SearchCommitHistory(sim)]
    /\ UNCHANGED <<anVars, rsVars, dfVars, crVars, svVars>>

CsNext == SearchCommits

(***************************************************************************)
(* app.py: repo_cache and the endpoints that fill and read it              *)
(***************************************************************************)
MaxRequests == 2    \* most requests served
MaxClock    == 1    \* the seconds the clock runs through

\* repository URLs: the owner and the last part of the URL, as its pieces;
\* two repositories of different owners with one name, one URL with .git
Urls == { [owner |-> "a", last |-> <<"proj">>],
          [owner |-> "b", last |-> <<"proj", ".git">>] }
NoUrl == [owner |-> "", last |-> <<>>]

\* lines 296-299: the last part of the URL without a trailing .git
RepoName(repo_url) ==
    LET repo_name == repo_url.last
    IN IF repo_name # <<>> /\ repo_name[Len(repo_name)] = ".git"
          THEN SubSeq(repo_name, 1, Len(repo_name) - 1)
          ELSE repo_name

NoPath == [kind |-> "none", name |-> <<>>, id |-> 0]

\* lines 302-303: f"/tmp/reposage_{repo_name}_{int(datetime.now().timestamp())}"
StampPath(repo_name, now) == [kind |-> "stamp", name |-> repo_name, id |-> now]

\* lines 951, 1041: tempfile.gettempdir() / f"reposage_{uuid.uuid4().hex}",
\* a fresh name for every request
UuidPath(r) == [kind |-> "uuid", name |-> <<>>, id |-> r]

\* a cache entry: the keys of the dict, the run whose analysis and whose
\* analyzer it holds (0: none), the directory under "path" or "clone_dir"
NoEntry == [keys |-> {}, analysis |-> 0, analyzer |-> 0, dir |-> NoPath]

FetchEntryInPlace(repo_url, r, repo_path) ==
    IF repo_cache[repo_url].keys = {}
       THEN [keys |-> {"analysis", "analyzer", "path", "last_updated"},
             analysis |-> r, analyzer |-> r, dir |-> repo_path]
       ELSE [repo_cache[repo_url] EXCEPT !.analysis = r]

\* lines 323-328
FetchEntry(repo_url, r, repo_path) ==
    [keys |-> {"analysis", "analyzer", "path", "last_updated"},
     analysis |-> r, analyzer |-> r, dir |-> repo_path]

\* lines 971-975
LookupEntry(r, clone_dir) ==
    [keys |-> {"analyzer", "path", "timestamp"},
     analysis |-> 0, analyzer |-> r, dir |-> clone_dir]

\* lines 1061-1065
DiffEntry(r, clone_dir) ==
    [keys |-> {"analyzer", "clone_dir", "timestamp"},
     analysis |-> 0, analyzer |-> r, dir |-> clone_dir]

\* repo_url in repo_cache
Cached(cache, repo_url) == cache[repo_url].keys # {}

Endpoints == {"repo_structure", "commits", "file_content_at_commit",
              "commit_by_hash", "file_diff"}

\* what a request is answered with: the outcome, and what it read from the
\* entry (the run of the analysis or of the analyzer, the directory)
Answer(status, run, dir) == [status |-> status, run |-> run, dir |-> dir]
NoAnswer == Answer("none", 0, NoPath)

NewRequest == [pc |-> "new", endpoint |-> "none", url |-> NoUrl,
               path |-> NoPath, stored |-> FALSE, answer |-> NoAnswer]

\* repo_cache[repo_url][key], as the endpoint uses it: lines 356 and 413
\* (a KeyError leaves the endpoint), line 870 (inside the try of line 864)
ReadEntry(endpoint, entry) ==
    CASE endpoint \in {"repo_structure", "commits"} ->
            IF "analysis" \in entry.keys
               THEN Answer("success", entry.analysis, NoPath)
               ELSE Answer("KeyError", 0, NoPath)
      [] endpoint = "file_content_at_commit" ->
            IF "path" \in entry.keys
               THEN Answer("success", 0, entry.dir)
               ELSE Answer("error", 0, NoPath)
      [] OTHER -> Answer("success", entry.analyzer, NoPath)

\* an HTTPException of fetch_and_analyze_repo, as the endpoint passes it on:
\* lines 387-389 and 410 let it through, line 917 turns it into an answer
Failed(endpoint, status) ==
    IF endpoint = "file_content_at_commit" THEN Answer("error", 0, NoPath)
    ELSE Answer(status, 0, NoPath)

\* the request is served up to its first await.  repo_structure (lines
\* 347-368), commits (401-410) and file_content_at_commit (853-868) answer
\* from the cache or go on to validate and fetch; commit_by_hash (940-1006)
\* and file_diff (1036-1073) have no await: they use the cached analyzer or
\* clone into a fresh directory and cache a new analyzer
StartRequest(r) ==
    /\ reqs[r].pc = "new"
    /\ \A q \in 1..(r - 1) : reqs[q].pc # "new"
    /\ \E endpoint \in Endpoints, repo_url \in Urls, clone_ok \in BOOLEAN :
          LET q == [reqs[r] EXCEPT !.endpoint = endpoint, !.url = repo_url]
              hit == Cached(repo_cache, repo_url)
              done(a) == [q EXCEPT !.pc = "done", !.answer = a]
          IN IF endpoint \in {"commit_by_hash", "file_diff"}
                THEN IF hit
                        THEN /\ reqs' = [reqs EXCEPT ![r] =
                                            done(ReadEntry(endpoint, repo_cache[repo_url]))]
                             /\ UNCHANGED <<repo_cache, clone_dirs>>
                     ELSE IF clone_ok
                        THEN /\ reqs' = [reqs EXCEPT ![r] =
                                   [done(Answer("success", r, NoPath))
                                       EXCEPT !.path = UuidPath(r), !.stored = TRUE]]
                             /\ clone_dirs' = clone_dirs \cup {UuidPath(r)}
                             /\ repo_cache' = [repo_cache EXCEPT ![repo_url] =
                                   IF endpoint = "commit_by_hash"
                                      THEN LookupEntry(r, UuidPath(r))
                                      ELSE DiffEntry(r, UuidPath(r))]
                     ELSE /\ reqs' = [reqs EXCEPT ![r] =
                                [done(IF endpoint = "commit_by_hash"
                                         THEN Answer("error", 0, NoPath)
                                         ELSE Answer("HTTP 500", 0, NoPath))
                                    EXCEPT !.path = UuidPath(r)]]
                          /\ UNCHANGED <<repo_cache, clone_dirs>>
             ELSE /\ reqs' = [reqs EXCEPT ![r] =
                        IF hit THEN done(ReadEntry(endpoint, repo_cache[repo_url]))
                        ELSE [q EXCEPT !.pc = IF endpoint = "repo_structure"
                                                THEN "validate" ELSE "fetch"]]
                  /\ UNCHANGED <<repo_cache, clone_dirs>>
    /\ UNCHANGED <<clock, analyzed>>
    /\ UNCHANGED <<anVars, rsVars, dfVars, crVars, csVars, wkVars, tmVars, glVars>>

\* get_repo_structure resumes from validate_git_repo (lines 364-376)
Validated(r) ==
    /\ reqs[r].pc = "validate"
    /\ \E valid \in BOOLEAN :
          reqs' = [reqs EXCEPT ![r] =
                      IF valid THEN [@ EXCEPT !.pc = "fetch"]
                      ELSE [@ EXCEPT !.pc = "done",
                                     !.answer = Answer("HTTP 400", 0, NoPath)]]
    /\ UNCHANGED <<clock, repo_cache, clone_dirs, analyzed>>
    /\ UNCHANGED <<anVars, rsVars, dfVars, crVars, csVars, wkVars, tmVars, glVars>>

\* fetch_and_analyze_repo resumes from validate_git_repo and runs to its
\* end without another await (lines 286-330), and so does the endpoint that
\* called it (lines 380-386, 413-417, 870-919).  The clone fails when the
\* remote fails or the directory is already there with a clone in it
Fetched(r) ==
    /\ reqs[r].pc = "fetch"
    /\ \E valid \in BOOLEAN, clone_ok \in BOOLEAN, seconds \in 0..1 :
          LET endpoint  == reqs[r].endpoint
              repo_url  == reqs[r].url
              repo_path == StampPath(RepoName(repo_url), clock)
              entry     == FetchEntry(repo_url, r, repo_path)
              done(a)   == [reqs[r] EXCEPT !.pc = "done", !.answer = a]
          IN /\ clock + seconds <= MaxClock
             /\ clock' = clock + seconds
             /\ IF ~valid
                   THEN /\ reqs' = [reqs EXCEPT ![r] = done(Failed(endpoint, "HTTP 400"))]
                        /\ UNCHANGED <<repo_cache, clone_dirs, analyzed>>
                ELSE IF ~clone_ok \/ repo_path \in clone_dirs
                   THEN /\ reqs' = [reqs EXCEPT ![r] =
                               [done(Failed(endpoint, "HTTP 500")) EXCEPT !.path = repo_path]]
                        /\ UNCHANGED <<repo_cache, clone_dirs, analyzed>>
                ELSE /\ clone_dirs' = clone_dirs \cup {repo_path}
                     /\ analyzed' = analyzed \cup {r}
                     /\ repo_cache' = [repo_cache EXCEPT ![repo_url] = entry]
                     /\ reqs' = [reqs EXCEPT ![r] =
                            [done(IF endpoint = "repo_structure"
                                     THEN Answer("success", r, NoPath)
                                     ELSE ReadEntry(endpoint, entry))
                                EXCEPT !.path = repo_path, !.stored = TRUE]]
    /\ UNCHANGED <<anVars, rsVars, dfVars, crVars, csVars, wkVars, tmVars, glVars>>

\* the requests of one server process, on its event loop
ApNext ==
    \E r \in 1..MaxRequests :
        \/ StartRequest(r)
        \/ Validated(r)
        \/ Fetched(r)

(***************************************************************************)
(* app.py: /api/commit-by-hash under asyncio.wait_for                      *)
(***************************************************************************)
MaxLookups     == 2     \* most /api/commit-by-hash requests served
TimeoutSeconds == 30    \* line 1011

\* how long the body of fetch_commit_info (clone and commit resolution)
\* can take, in seconds
LookupSeconds == {29, 31}

NewLookup == [pc |-> "new", url |-> NoUrl, start |-> 0, timer |-> "none",
              waiter |-> "none", fut |-> NoAnswer, finished |-> 0,
              answer |-> NoAnswer, answered |-> 0]

Callback(kind, r) == [kind |-> kind, req |-> r]

\* lines 922-1012, up to the await: wait_for makes the lookup a task of the
\* loop, arms a timer for the timeout and waits for either
CommitByHashRequest(r) ==
    /\ reqs[r].pc = "new"
    /\ \A q \in 1..(r - 1) : reqs[q].pc # "new"
    /\ \E repo_url \in Urls :
          reqs' = [reqs EXCEPT ![r] = [@ EXCEPT !.pc = "waiting", !.url = repo_url,
                                                !.start = clock, !.timer = "armed",
                                                !.waiter = "pending"]]
    /\ ready' = Append(ready, Callback("task", r))
    /\ UNCHANGED <<clock, repo_cache, clone_dirs, analyzed>>
    /\ UNCHANGED <<anVars, rsVars, dfVars, crVars, csVars, wkVars, glVars>>

\* the loop runs the task: fetch_commit_info (lines 940-1006) has no await,
\* so the whole body runs in this one step while the loop does nothing else
RunLookup ==
    /\ ready # <<>>
    /\ Head(ready).kind = "task"
    /\ LET r == Head(ready).req
           repo_url == reqs[r].url
       IN \E seconds \in LookupSeconds, clone_ok \in BOOLEAN, found \in BOOLEAN :
             LET cloned == ~Cached(repo_cache, repo_url) /\ clone_ok
                 result ==
                    IF ~Cached(repo_cache, repo_url) /\ ~clone_ok
                       THEN Answer("error", 0, NoPath)
                    ELSE IF found
                       THEN Answer("success",
                                   IF cloned THEN r ELSE repo_cache[repo_url].analyzer,
                                   NoPath)
                    ELSE Answer("not found", 0, NoPath)
             IN /\ clock' = clock + seconds
                /\ repo_cache' = IF cloned
                                    THEN [repo_cache EXCEPT ![repo_url] =
                                             LookupEntry(r, UuidPath(r))]
                                    ELSE repo_cache
                /\ clone_dirs' = IF cloned THEN clone_dirs \cup {UuidPath(r)}
                                 ELSE clone_dirs
                /\ reqs' = [reqs EXCEPT ![r] = [@ EXCEPT !.fut = result,
                                                          !.finished = clock + seconds]]
                /\ ready' = Append(Tail(ready), Callback("done", r))
    /\ UNCHANGED analyzed
    /\ UNCHANGED <<anVars, rsVars, dfVars, crVars, csVars, wkVars, glVars>>

\* between two callbacks the loop finds the timer of a request due
TimerDue(r) ==
    /\ reqs[r].timer = "armed"
    /\ clock >= reqs[r].start + TimeoutSeconds
    /\ reqs' = [reqs EXCEPT ![r] = [@ EXCEPT !.timer = "due"]]
    /\ ready' = Append(ready, Callback("timeout", r))
    /\ UNCHANGED <<clock, repo_cache, clone_dirs, analyzed>>
    /\ UNCHANGED <<anVars, rsVars, dfVars, crVars, csVars, wkVars, glVars>>

\* the loop runs the callback of the finished task or of the timer: either
\* releases the waiter, and the first to do so makes the endpoint ready
ReleaseWaiter ==
    /\ ready # <<>>
    /\ Head(ready).kind \in {"done", "timeout"}
    /\ LET r == Head(ready).req
           first == reqs[r].waiter = "pending" /\ reqs[r].timer # "cancelled"
       IN /\ reqs' = [reqs EXCEPT ![r] =
                         IF first THEN [@ EXCEPT !.waiter = "released"] ELSE @]
          /\ ready' = IF first THEN Append(Tail(ready), Callback("resume", r))
                      ELSE Tail(ready)
    /\ UNCHANGED <<clock, repo_cache, clone_dirs, analyzed>>
    /\ UNCHANGED <<anVars, rsVars, dfVars, crVars, csVars, wkVars, glVars>>

\* the endpoint resumes in wait_for: the timer is cancelled; the result of
\* a finished lookup is returned (line 1013), an unfinished one is
\* cancelled and the timed-out answer returned (lines 1014-1019)
ResumeEndpoint ==
    /\ ready # <<>>
    /\ Head(ready).kind = "resume"
    /\ LET r == Head(ready).req
       IN reqs' = [reqs EXCEPT ![r] =
                      [@ EXCEPT !.pc = "done", !.timer = "cancelled",
                                !.answer = IF reqs[r].fut # NoAnswer THEN reqs[r].fut
                                           ELSE Answer("timed out", 0, NoPath),
                                !.answered = clock]]
    /\ ready' = Tail(ready)
    /\ UNCHANGED <<clock, repo_cache, clone_dirs, analyzed>>
    /\ UNCHANGED <<anVars, rsVars, dfVars, crVars, csVars, wkVars, glVars>>

\* the /api/commit-by-hash requests of one server process, on its event loop
TmNext ==
    \/ \E r \in 1..MaxLookups : CommitByHashRequest(r) \/ TimerDue(r)
    \/ RunLookup
    \/ ReleaseWaiter
    \/ ResumeEndpoint

(***************************************************************************)
(* get_global_sentence_transformer                                         *)
(***************************************************************************)
MaxThreads == 3    \* most threads constructing a RepoAnalyzer

\* a thread: where it is in get_global_sentence_transformer, the instance
\* it constructed, the instance the call returned to it (0: none)
NewThread == [pc |-> "call", local |-> 0, model |-> 0]

\* line 35: if _global_sentence_transformer is None
TestNone(t) ==
    /\ threads[t].pc = "call"
    /\ threads' = [threads EXCEPT ![t].pc =
                      IF global_sentence_transformer = 0 THEN "construct" ELSE "return"]
    /\ UNCHANGED <<global_sentence_transformer, built>>
    /\ UNCHANGED <<anVars, rsVars, dfVars, crVars, csVars, wkVars, apVars, tmVars>>

\* line 37, right-hand side: SentenceTransformer('all-MiniLM-L6-v2')
Construct(t) ==
    /\ threads[t].pc = "construct"
    /\ built' = built + 1
    /\ threads' = [threads EXCEPT ![t] = [@ EXCEPT !.pc = "store", !.local = built + 1]]
    /\ UNCHANGED global_sentence_transformer
    /\ UNCHANGED <<anVars, rsVars, dfVars, crVars, csVars, wkVars, apVars, tmVars>>

\* line 37, the assignment to the global
Store(t) ==
    /\ threads[t].pc = "store"
    /\ global_sentence_transformer' = threads[t].local
    /\ threads' = [threads EXCEPT ![t].pc = "return"]
    /\ UNCHANGED built
    /\ UNCHANGED <<anVars, rsVars, dfVars, crVars, csVars, wkVars, apVars, tmVars>>

\* line 38: return _global_sentence_transformer; line 45 keeps it as
\* self.model
Return(t) ==
    /\ threads[t].pc = "return"
    /\ threads' = [threads EXCEPT ![t] =
                      [@ EXCEPT !.pc = "done", !.model = global_sentence_transformer]]
    /\ UNCHANGED <<global_sentence_transformer, built>>
    /\ UNCHANGED <<anVars, rsVars, dfVars, crVars, csVars, wkVars, apVars, tmVars>>

\* the threads of one process, each constructing a RepoAnalyzer
GlNext ==
    \E t \in 1..MaxThreads :
        \/ TestNone(t)
        \/ Construct(t)
        \/ Store(t)
        \/ Return(t)

(***************************************************************************)
(* analyze_repo: the two pool workers on the fields of one analyzer        *)
(***************************************************************************)
\* the fields of the analyzer the workers write
Analyzer == [commit_history |-> commit_history,
             file_contents |-> file_contents,
             file_embeddings |-> file_embeddings]

IndexOneResetsFiles(self, c) ==
    [self EXCEPT !.commit_history = Append(@, IndexRecord(c, {})),
                 !.file_embeddings = <<>>]

\* lines 284-341, one round of the loop: the record of commit c is appended
IndexOne(self, c) ==
    [self EXCEPT !.commit_history = Append(@, IndexRecord(c, {}))]

\* lines 737-797, one round of the loops: the crawl of the i-th entry, with
\* the file_structure built so far
CrawlOne(self, structure, i) ==
    LET st == CrawlEntry([contents |-> self.file_contents,
                          embeddings |-> self.file_embeddings,
                          structure |-> structure, raised |-> FALSE],
                         i, worktree, "ok")
    IN [self |-> [self EXCEPT !.file_contents = st.contents,
                              !.file_embeddings = st.embeddings],
        structure |-> st.structure]

\* lines 821-828: the keys of file_contents that match a pattern
ImportantFiles(contents) ==
    LET hit(k) == ExtOf(k[Len(k)]) \in {".md", ".py"}
        keys == [i \in 1..Len(contents) |-> contents[i].key]
    IN SelectSeq(keys, hit)

NoResults == [commit_history |-> <<>>, file_structure |-> <<>>, important_files |-> <<>>]
NewWork == [pc |-> "workers", index |-> 0, crawl |-> 0, results |-> NoResults]
NoWork  == [pc |-> "none", index |-> 0, crawl |-> 0, results |-> NoResults]

\* the worker of line 76 handles the next commit
IndexStep ==
    /\ work.pc = "workers"
    /\ work.index < Len(repo)
    /\ LET self == IndexOne(Analyzer, repo[work.index + 1])
       IN /\ commit_history' = self.commit_history
          /\ file_contents' = self.file_contents
          /\ file_embeddings' = self.file_embeddings
          /\ hist_ret' = Append(hist_ret, IndexRecord(repo[work.index + 1], {}))
    /\ work' = [work EXCEPT !.index = @ + 1]
    /\ UNCHANGED <<repo, hist_runs, hist_call, res>>
    /\ UNCHANGED <<worktree, file_structure, crawl, fsearch>>
    /\ UNCHANGED <<anVars, dfVars, csVars, apVars, tmVars, glVars>>

\* the worker of line 77 handles the next entry of the working tree
CrawlStep ==
    /\ work.pc = "workers"
    /\ work.crawl < Len(CrawlFiles)
    /\ LET out == CrawlOne(Analyzer, file_structure, work.crawl + 1)
       IN /\ commit_history' = out.self.commit_history
          /\ file_contents' = out.self.file_contents
          /\ file_embeddings' = out.self.file_embeddings
          /\ file_structure' = out.structure
    /\ work' = [work EXCEPT !.crawl = @ + 1]
    /\ UNCHANGED <<repo, hist_ret, hist_runs, hist_call, res>>
    /\ UNCHANGED <<worktree, crawl, fsearch>>
    /\ UNCHANGED <<anVars, dfVars, csVars, apVars, tmVars, glVars>>

\* lines 80-109: both futures have their result; the important files are
\* identified and the results returned
Collect ==
    /\ work.pc = "workers"
    /\ work.index = Len(repo)
    /\ work.crawl = Len(CrawlFiles)
    /\ work' = [work EXCEPT !.pc = "done",
                            !.results = [commit_history |-> hist_ret,
                                         file_structure |-> file_structure,
                                         important_files |-> ImportantFiles(file_contents)]]
    /\ UNCHANGED <<rsVars, crVars>>
    /\ UNCHANGED <<anVars, dfVars, csVars, apVars, tmVars, glVars>>

\* the two workers in any order, then the thread that called analyze_repo
WkNext ==
    \/ IndexStep
    \/ CrawlStep
    \/ Collect

(***************************************************************************)
(* Specifications                                                          *)
(***************************************************************************)
\* the analyzer as __init__ leaves it (lines 43-48), on an empty store
RsIdle ==
    /\ repo = <<>>
    /\ commit_history = <<>>
    /\ hist_ret = <<>>
    /\ hist_runs = 0
    /\ hist_call = NoCall
    /\ res = NoCall

DfIdle == diff_res = NoDiff

\* no working tree, the dicts as __init__ leaves them (lines 44-45)
CrIdle ==
    /\ worktree = <<>>
    /\ file_contents = <<>>
    /\ file_embeddings = <<>>
    /\ file_structure = <<>>
    /\ crawl = NoCrawl
    /\ fsearch = NoCall

CsIdle == csearch = NoCall

\* a server that started (line 246) and was not asked anything
ApInit ==
    /\ clock = 0
    /\ repo_cache = [repo_url \in Urls |-> NoEntry]
    /\ clone_dirs = {}
    /\ analyzed = {}
    /\ reqs = [r \in 1..MaxRequests |-> NewRequest]
    /\ ready = <<>>

\* no server
ApIdle ==
    /\ clock = 0
    /\ repo_cache = <<>>
    /\ clone_dirs = {}
    /\ analyzed = {}
    /\ reqs = <<>>
    /\ ready = <<>>

\* a server that started and was not asked for a commit
TmInit ==
    /\ clock = 0
    /\ repo_cache = [repo_url \in Urls |-> NoEntry]
    /\ clone_dirs = {}
    /\ analyzed = {}
    /\ reqs = [r \in 1..MaxLookups |-> NewLookup]
    /\ ready = <<>>

\* a process in which the module was imported (line 31) and the threads are
\* about to construct their analyzers
GlInit ==
    /\ global_sentence_transformer = 0
    /\ built = 0
    /\ threads = [t \in 1..MaxThreads |-> NewThread]

\* no thread
GlIdle ==
    /\ global_sentence_transformer = 0
    /\ built = 0
    /\ threads = <<>>

\* analyze_repo is entered on a fresh analyzer (lines 43-48) over a linear
\* repository and a working tree
WkInit ==
    /\ \E n \in 1..MaxCommits : repo = LongChain(n)
    /\ worktree \in WorkTrees
    /\ commit_history = <<>>
    /\ hist_ret = <<>>
    /\ hist_runs = 0
    /\ hist_call = NoCall
    /\ res = NoCall
    /\ file_contents = <<>>
    /\ file_embeddings = <<>>
    /\ file_structure = <<>>
    /\ crawl = NoCrawl
    /\ fsearch = NoCall
    /\ work = NewWork

WkIdle == work = NoWork

SvIdle == ApIdle /\ GlIdle /\ WkIdle

AnIdle ==
    /\ an_pc = "idle"
    /\ fut = [t \in Tasks |-> "none"]
    /\ loc = [p \in Phases |-> "unset"]
    /\ phase = [p \in Phases |-> "none"]
    /\ phaseval = [p \in Phases |-> "none"]
    /\ calls = [p \in Phases |-> 0]
    /\ an_ret = "none"

RsInit ==
    /\ repo \in ChainRepos \cup TreeRepos
    /\ commit_history = <<>>
    /\ hist_ret = <<>>
    /\ hist_runs = 0
    /\ hist_call = NoCall
    /\ res = NoCall

IxInit ==
    /\ repo \in MergeRepos
    /\ commit_history = <<>>
    /\ hist_ret = <<>>
    /\ hist_runs = 0
    /\ hist_call = NoCall
    /\ res = NoCall

\* a merge of two roots, or a commit and its parent
CmInit ==
    /\ repo \in MergeRepos \cup {r \in TreeRepos : Len(r) = 2}
    /\ commit_history = <<>>
    /\ hist_ret = <<>>
    /\ hist_runs = 0
    /\ hist_call = NoCall
    /\ res = NoCall

InitCompare == CmInit /\ AnIdle /\ DfIdle /\ CrIdle /\ CsIdle /\ SvIdle
InitAnalyze == AnInit /\ RsIdle /\ DfIdle /\ CrIdle /\ CsIdle /\ SvIdle
InitResolve == RsInit /\ AnIdle /\ DfIdle /\ CrIdle /\ CsIdle /\ SvIdle

DfInit ==
    /\ repo \in DiffRepos
    /\ commit_history = <<>>
    /\ hist_ret = <<>>
    /\ hist_runs = 0
    /\ hist_call = NoCall
    /\ res = NoCall
    /\ diff_res = NoDiff

\* the analyzer as __init__ leaves it, over a working tree
CrInit ==
    /\ worktree \in WorkTrees
    /\ file_contents = <<>>
    /\ file_embeddings = <<>>
    /\ file_structure = <<>>
    /\ crawl = NoCrawl
    /\ fsearch = NoCall

\* the analyzer after analyze_repo indexed a linear repository of up to
\* MaxHistory commits (the default max_commits, 50, takes them all), or an
\* analyzer that indexed nothing
CsInit ==
    /\ \E n \in 1..MaxHistory :
          /\ repo = LongChain(n)
          /\ \/ /\ commit_history = [i \in 1..n |-> IndexRecord(repo[i], {})]
                /\ hist_ret = commit_history
                /\ hist_runs = 1
                /\ hist_call = [kind |-> "call", max_commits |-> 50,
                                raised |-> FALSE, bad |-> [i \in 1..n |-> {}]]
             \/ /\ n = 1
                /\ commit_history = <<>>
                /\ hist_ret = <<>>
                /\ hist_runs = 0
                /\ hist_call = NoCall
    /\ res = NoCall
    /\ csearch = NoCall

InitCommits == CsInit /\ AnIdle /\ DfIdle /\ CrIdle /\ SvIdle
InitCrawl   == CrInit /\ AnIdle /\ RsIdle /\ DfIdle /\ CsIdle /\ SvIdle
InitDiff    == DfInit /\ AnIdle /\ CrIdle /\ CsIdle /\ SvIdle
InitIndex   == IxInit /\ AnIdle /\ DfIdle /\ CrIdle /\ CsIdle /\ SvIdle
InitApp     == ApInit /\ AnIdle /\ RsIdle /\ DfIdle /\ CrIdle /\ CsIdle /\ GlIdle /\ WkIdle
InitTimeout == TmInit /\ AnIdle /\ RsIdle /\ DfIdle /\ CrIdle /\ CsIdle /\ GlIdle /\ WkIdle
InitWorkers == WkInit /\ AnIdle /\ DfIdle /\ CsIdle /\ ApIdle /\ GlIdle
InitModel   == GlInit /\ AnIdle /\ RsIdle /\ DfIdle /\ CrIdle /\ CsIdle /\ ApIdle /\ WkIdle

\* one analyze_repo call
SpecAnalyze == InitAnalyze /\ [][AnNext]_vars

\* the indexer and the resolver of one analyzer over a repository
SpecResolve == InitResolve /\ [][RsNext]_vars

\* the indexer over a repository with a merge commit
SpecIndex == InitIndex /\ [][IxNext]_vars

\* get_file_diff over a repository
SpecDiff == InitDiff /\ [][DfNext]_vars

\* the crawls of one analyzer over a working tree that changes
SpecCrawl == InitCrawl /\ [][CrNext]_vars

\* the file search after the crawls of one analyzer
SpecSearch == InitCrawl /\ [][FsNext]_vars

\* the commit search over an indexed history
SpecCommits == InitCommits /\ [][CsNext]_vars

\* the requests of a server
SpecApp == InitApp /\ [][ApNext]_vars

\* the commit lookups of a server under the overall timeout
SpecTimeout == InitTimeout /\ [][TmNext]_vars

\* the threads that ask for the shared embedding model
SpecModel == InitModel /\ [][GlNext]_vars

\* the indexer called repeatedly on one analyzer
SpecReindex == InitResolve /\ [][RxNext]_vars

\* the indexer and the resolver over merges, single-parent and root commits
SpecCompare == InitCompare /\ [][CmNext]_vars

\* the two workers of analyze_repo, interleaved
SpecWorkers == InitWorkers /\ [][WkNext]_vars

Init == InitAnalyze \/ InitResolve \/ InitIndex \/ InitDiff \/ InitCrawl \/ InitCommits
           \/ InitApp \/ InitTimeout \/ InitModel \/ InitCompare
           \/ InitWorkers
Next == AnNext \/ RsNext \/ IxNext \/ DfNext \/ CrNext \/ FsNext \/ CsNext
           \/ ApNext \/ TmNext \/ GlNext \/ RxNext \/ CmNext
           \/ WkNext
Spec == Init /\ [][Next]_vars

(***************************************************************************)
(* Properties                                                              *)
(***************************************************************************)
IsCall == res.kind = "call"

\* C1: whatever phases fail, analyze_repo returns a dict with the four keys
\* repo_info, commit_history, file_structure and important_files; a phase
\* that raised contributes its default, a phase that returned contributes
\* the value it returned.
C1_AnalyzeResult ==
    an_pc = "done" =>
        /\ DOMAIN an_ret = Phases
        /\ \A p \in Phases :
              an_ret[p] = IF phase[p] = "returned" THEN phaseval[p] ELSE Default(p)

C1_Witness ==
    /\ an_pc = "done"
    /\ phase["repo_info"] = "raised"
    /\ phase["commit_history"] = "raised"
    /\ phase["file_structure"] = "returned"
    /\ phaseval["file_structure"] = "value"
    /\ phase["important_files"] = "returned"
    /\ phaseval["important_files"] = "value"

\* C2: the important-file classification is entered only when both pool
\* tasks have finished (returned or raised), no phase is invoked twice, and
\* when analyze_repo returns each of the four phases was invoked once.
C2_ImportantAfterBoth ==
    /\ phase["important_files"] # "none" =>
          \A t \in Tasks : fut[t] \in {"returned", "raised"}
    /\ \A p \in Phases : calls[p] <= 1
    /\ an_pc = "done" => \A p \in Phases : calls[p] = 1

C2_Witness ==
    /\ an_pc = "important_running"
    /\ fut["commit_history"] = "raised"
    /\ fut["file_structure"] = "returned"

\* cached records whose hash, hash prefix or short hash is the reference h
CachedFor(h) ==
    {i \in 1..Len(commit_history) :
        \/ commit_history[i].hash = h
        \/ StartsWith(commit_history[i].hash, h)
        \/ commit_history[i].short_hash = h}

\* C3: looking up the short hash of any record of the indexed history
\* returns a record with that record's full hash.
C3_RoundTrip ==
    IsCall =>
        \A i \in 1..Len(commit_history) :
            commit_history[i].short_hash = res.ref =>
                /\ res.result.kind = "commit"
                /\ res.result.hash = commit_history[i].hash

\* C4: a reference that matches a record of the cached history is answered
\* with a matching cached record and without any VCS command; when VCS
\* commands are used, rev-parse comes first and the commit lookup second.
C4_CacheHitNoVcs ==
    IsCall =>
        /\ (res.ref # <<>> /\ CachedFor(res.ref) # {}) =>
              /\ res.vcs = <<>>
              /\ \E i \in CachedFor(res.ref) : res.result = commit_history[i]
        /\ res.vcs # <<>> => res.vcs[1] = "rev_parse"
        /\ Len(res.vcs) >= 2 => res.vcs[2] = "commit"

C4_Witness ==
    /\ IsCall
    /\ Len(commit_history) = 2
    /\ res.ref = commit_history[2].short_hash
    /\ res.ref # commit_history[1].short_hash
    /\ res.result = commit_history[2]
    /\ res.vcs = <<>>

Count(seq, x) == Cardinality({k \in 1..Len(seq) : seq[k] = x})

\* C5: a reference unknown to the cache and to the local object store makes
\* the resolver fetch that object from the remote exactly once and retry the
\* resolution before it reports not-found.
C5_FetchOnce ==
    (/\ IsCall
     /\ res.ref # <<>>
     /\ CachedFor(res.ref) = {}
     /\ Candidates(res.ref) = {}
     /\ Count(res.vcs, "commit") >= 1)
    => /\ Count(res.vcs, "fetch") = 1
       /\ Count(res.vcs, "commit") = 2

\* lines 989-1000 of app.py: the endpoint's answer for a resolver result
EndpointAnswer(commit_info) ==
    IF commit_info = None
       THEN [status |-> "error", commit |-> None]
       ELSE [status |-> "success", commit |-> commit_info]

\* C6: get_commit_by_hash returns a commit record or the not-found value and
\* nothing else, so the endpoint answers "success" only with a commit record.
C6_TwoShapes ==
    IsCall =>
        /\ res.result.kind \in {"commit", "none"}
        /\ EndpointAnswer(res.result).status = "success" =>
              EndpointAnswer(res.result).commit.kind = "commit"

\* C7: a reference that is a prefix of two or more distinct commits of the
\* cached history is answered not-found, never with one of them.
C7_AmbiguousNotFound ==
    (IsCall /\ res.ref # <<>>
       /\ Cardinality({commit_history[i].hash : i \in CachedFor(res.ref)}) >= 2)
    => res.result = None

\* number of changed files the strategy that built the record had to list
ChangedCount(c, strategy) ==
    CASE strategy = "diff_tree" -> Len(NameStatus(CommitOf(c.parents[1]).tree, c.tree))
      [] strategy = "diff"      -> Len(GitDiff(CommitOf(c.parents[1]).tree, c.tree))
      [] strategy = "ls_tree"   -> Len(LsTree(c.tree))
      [] OTHER                  -> 0

\* C8: a record built by any of the three strategies for a commit with more
\* than max_files changed files has exactly max_files file changes and its
\* stats carry the truncation note (stated for the calls in which
\* git show --stat answered).
C8_TruncatedAndFlagged ==
    (/\ IsCall
     /\ res.result.kind = "commit"
     /\ res.strategy # "none"
     /\ res.stat_ok
     /\ ChangedCount(CommitOf(res.result.hash), res.strategy) > res.max_files)
    => /\ Len(res.result.file_changes) = res.max_files
       /\ res.result.stats.note

\* the file changes a root commit must show: every blob, added
AllAdded(c) == [k \in 1..Len(LsTree(c.tree)) |->
                   [path |-> LsTree(c.tree)[k], change_type |-> "added"]]

\* C9: the record get_commit_by_hash returns for a zero-parent commit with
\* at most max_files blobs, cached or not, lists every blob of its tree as
\* added and nothing else (stated for the calls answered from the cache or
\* by an ls-tree that did not fail).
C9_RootAllAdded ==
    (/\ IsCall
     /\ res.result.kind = "commit"
     /\ CommitOf(res.result.hash).parents = <<>>
     /\ (res.vcs = <<>> \/ res.strategy = "ls_tree")
     /\ Len(LsTree(CommitOf(res.result.hash).tree)) <= res.max_files)
    => res.result.file_changes = AllAdded(CommitOf(res.result.hash))

\* C10: the record _get_commit_history produces for a zero-parent commit
\* lists every file of the commit's tree as added, and stats.files_changed is
\* the number of those files.
C10_IndexedRootAllAdded ==
    \A i \in 1..Len(commit_history) :
        CommitOf(commit_history[i].hash).parents = <<>> =>
            /\ commit_history[i].file_changes = AllAdded(CommitOf(commit_history[i].hash))
            /\ commit_history[i].stats.files_changed =
                  Len(LsTree(CommitOf(commit_history[i].hash).tree))

\* the last _get_commit_history call ran through (line 352)
RanThrough == hist_call # NoCall /\ ~hist_call.raised

\* C11: a _get_commit_history(max_commits = N) call that runs through returns
\* the records of exactly the first min(N, total) commits of iter_commits'
\* newest-first iteration, in that order.
C11_FirstNInOrder ==
    RanThrough =>
        /\ Len(hist_ret) = Min({hist_call.max_commits, Len(repo)})
        /\ \A i \in 1..Len(hist_ret) : hist_ret[i].hash = repo[i].hexsha

\* a call with N below the number of commits returned the newest ones
C11_Witness ==
    /\ RanThrough
    /\ hist_call.max_commits = 1
    /\ Len(repo) = 2
    /\ Len(hist_ret) = 1
    /\ hist_ret[1].hash = repo[1].hexsha

\* the entries the diff against the j-th parent of c contributes when the
\* fault points of bad raise: none if that diff raises, else the entries
\* that did not raise, in the diff's order
SurvivingOf(c, j, bad) ==
    IF <<j, 0>> \in bad \/ ~HasCommit(c.parents[j]) THEN <<>>
    ELSE LET diffs == GitDiff(CommitOf(c.parents[j]).tree, c.tree)
             keep  == SelectSeq([k \in 1..Len(diffs) |-> k],
                                LAMBDA k : <<j, k>> \notin bad)
         IN [n \in 1..Len(keep) |->
                [path |-> PathOfDiff(diffs[keep[n]]),
                 change_type |-> ChangeTypeOfDiff(diffs[keep[n]])]]

RECURSIVE Surviving(_, _, _)
Surviving(c, j, bad) ==
    IF j > Len(c.parents) THEN <<>>
    ELSE SurvivingOf(c, j, bad) \o Surviving(c, j + 1, bad)

\* C12: when the processing of one diff entry, or the diff against one
\* parent, raises inside _get_commit_history, only the file changes it would
\* have contributed are missing: every commit of the window still has its
\* record, with the entries that did not raise, and the records of the other
\* commits are what they are without the fault.
C12_FaultOmitsOnlyItsEntries ==
    RanThrough =>
        /\ Len(hist_ret) = Len(Window(hist_call.max_commits))
        /\ \A i \in 1..Len(hist_ret) :
              /\ hist_ret[i].hash = repo[i].hexsha
              /\ hist_ret[i].file_changes = Surviving(repo[i], 1, hist_call.bad[i])
              /\ hist_ret[i].stats.files_changed = Len(hist_ret[i].file_changes)

\* the diff against the first parent of a merge raised, an entry of the diff
\* against the second raised, and the record keeps the entry that is left
C12_Witness ==
    /\ RanThrough
    /\ Len(hist_ret) = 2
    /\ Len(repo[1].parents) = 2
    /\ hist_call.bad[1] = {<<1, 0>>, <<2, 1>>}
    /\ Len(hist_ret[1].file_changes) = 1
    /\ hist_call.bad[2] = {}

\* a get_file_diff call on a commit of the store in which nothing failed
IsCleanDiff ==
    /\ diff_res # NoDiff
    /\ diff_res.faults = NoFaults
    /\ HasCommit(diff_res.commit_hash)

\* the case the trees define, from (the commit has a parent, the path is in
\* the parent's tree, the path is in the commit's tree), in the order of
\* the four cases
TreeCase(c, file_path) ==
    IF c.parents = <<>> THEN "initial"
    ELSE LET pt == CommitOf(c.parents[1]).tree
         IN IF pt[file_path] = 0 /\ c.tree[file_path] # 0 THEN "added"
            ELSE IF pt[file_path] # 0 /\ c.tree[file_path] = 0 THEN "deleted"
            ELSE "modified"

\* the output belongs to the case: its marker is one of the case's, and the
\* content under a text marker is that of the blob the case names
OutputOfCase(out, case, c, file_path) ==
    CASE case = "initial" ->
            \/ out.marker = "File was added in this commit (binary content)"
            \/ /\ out.marker = "Initial commit, file added:"
               /\ out.payload = <<c.tree[file_path]>>
      [] case = "added" ->
            \/ out.marker = "File was added in this commit (binary content)"
            \/ /\ out.marker = "File was added in this commit:"
               /\ out.payload = <<c.tree[file_path]>>
      [] case = "deleted" ->
            \/ out.marker = "File was deleted in this commit (binary content)"
            \/ /\ out.marker = "File was deleted in this commit. Previous content:"
               /\ out.payload = <<CommitOf(c.parents[1]).tree[file_path]>>
      [] OTHER ->
            out.marker \in {"diff", "File metadata changed (permissions or mode)",
                            "No changes detected in this file for this commit"}

KnownPath(c, file_path) ==
    \/ c.tree[file_path] # 0
    \/ c.parents # <<>> /\ CommitOf(c.parents[1]).tree[file_path] # 0

InBothTrees(c, file_path) ==
    /\ c.parents # <<>>
    /\ c.tree[file_path] # 0
    /\ CommitOf(c.parents[1]).tree[file_path] # 0

\* C15: for a path in both trees, a non-empty textual diff is returned as it
\* is; an empty one with a non-empty metadata diff gives the metadata
\* marker; when both are empty, and so whenever blob and mode of the path
\* are the same in parent and commit, the "No changes detected" marker is
\* returned.
C15_ModifiedCase ==
    (IsCleanDiff /\ InBothTrees(CommitOf(diff_res.commit_hash), diff_res.file_path))
    => LET c      == CommitOf(diff_res.commit_hash)
           parent == CommitOf(c.parents[1])
           path   == diff_res.file_path
           text   == GitDiffText(parent, c, path)
           meta   == GitDiffSummary(parent, c, path)
           same   == /\ parent.tree[path] = c.tree[path]
                     /\ (path \in parent.exec) = (path \in c.exec)
       IN /\ text # <<>> => diff_res.out = Str("diff", text)
          /\ (text = <<>> /\ meta # <<>>) =>
                diff_res.out.marker = "File metadata changed (permissions or mode)"
          /\ (text = <<>> /\ meta = <<>>) =>
                diff_res.out.marker = "No changes detected in this file for this commit"
          /\ same =>
                diff_res.out.marker = "No changes detected in this file for this commit"
          /\ ~same => diff_res.out.marker = "diff"

\* an unchanged path of a commit with a parent gave the marker
C15_Witness ==
    /\ IsCleanDiff
    /\ InBothTrees(CommitOf(diff_res.commit_hash), diff_res.file_path)
    /\ GitDiffText(CommitOf(CommitOf(diff_res.commit_hash).parents[1]),
                   CommitOf(diff_res.commit_hash), diff_res.file_path) = <<>>
    /\ diff_res.out.marker = "No changes detected in this file for this commit"

\* the output is one of the binary markers of the three content cases
IsBinaryMarker(out) ==
    out.marker \in {"File was added in this commit (binary content)",
                    "File was deleted in this commit (binary content)"}

\* the bytes each content case samples
SampleOf(case) ==
    CASE case = "initial" -> InitialSample
      [] case = "added"   -> AddedSample
      [] OTHER            -> DeletedSample

\* C16: get_file_diff sniffs the same way in the initial-commit, added and
\* deleted cases: the blob a call reports on is given the binary marker
\* exactly when the sample any of the three cases takes of it holds a NUL
\* byte, so no blob is binary in one case and text in another.
C16_SameSniffRule ==
    (/\ IsCleanDiff
     /\ KnownPath(CommitOf(diff_res.commit_hash), diff_res.file_path)
     /\ TreeCase(CommitOf(diff_res.commit_hash), diff_res.file_path)
           \in {"initial", "added", "deleted"})
    => LET c    == CommitOf(diff_res.commit_hash)
           case == TreeCase(c, diff_res.file_path)
           blob == IF case = "deleted"
                      THEN CommitOf(c.parents[1]).tree[diff_res.file_path]
                      ELSE c.tree[diff_res.file_path]
       IN \A other \in {"initial", "added", "deleted"} :
             IsBinaryMarker(diff_res.out) = HasNulIn(blob, SampleOf(other))

\* the similarity the query of the last search gives the embedded file
SimOfFile(file_path) == fsearch.sim[DictGet(file_embeddings, file_path)]
\* the place of the file in the iteration over file_embeddings
PlaceOfFile(file_path) ==
    CHOOSE i \in 1..Len(file_embeddings) : file_embeddings[i].key = file_path
\* file p comes before file q in the ranking: more similar, or as similar
\* and met earlier
RanksBefore(p, q) ==
    \/ SimOfFile(p) > SimOfFile(q)
    \/ SimOfFile(p) = SimOfFile(q) /\ PlaceOfFile(p) < PlaceOfFile(q)

\* C17: search_relevant_files(query, top_k = K) returns [] when there is no
\* file embedding; otherwise, for every K >= 0, exactly min(K, number of
\* embedded files) pairs of a path and its content, the most similar files,
\* by descending cosine similarity, files of equal similarity in the
\* order of the iteration over file_embeddings.
C17_TopKStable ==
    fsearch # NoCall =>
        LET result == fsearch.result
            found  == {result[n].file_path : n \in 1..Len(result)}
        IN /\ file_embeddings = <<>> => result = <<>>
           /\ Len(result) = Min({fsearch.top_k, Len(file_embeddings)})
           /\ \A n \in 1..Len(result) :
                 /\ DictHas(file_embeddings, result[n].file_path)
                 /\ result[n].content = DictGet(file_contents, result[n].file_path)
           /\ \A n, m \in 1..Len(result) :
                 n < m => RanksBefore(result[n].file_path, result[m].file_path)
           /\ \A p \in found, q \in DictKeys(file_embeddings) \ found :
                 RanksBefore(p, q)

\* of two embedded files of equal similarity, a search for one file
\* returned the one met first
C17_Witness ==
    /\ fsearch # NoCall
    /\ crawl.runs = 2
    /\ Len(file_embeddings) = 2
    /\ fsearch.top_k = 1
    /\ SimOfFile(file_embeddings[1].key) = SimOfFile(file_embeddings[2].key)
    /\ Len(fsearch.result) = 1
    /\ fsearch.result[1].file_path = file_embeddings[1].key

\* the paths of the leaves of a file structure
RECURSIVE LeafPathsOf(_, _)
LeafPathsOf(level, prefix) ==
    UNION { IF level[i].value.leaf
               THEN {prefix \o <<level[i].key>>}
               ELSE LeafPathsOf(level[i].value.children, prefix \o <<level[i].key>>) :
            i \in 1..Len(level) }

LeafPaths == LeafPathsOf(file_structure, <<>>)

\* the entries a crawl lists: on clone_dirs, in a walked directory, not a dot
\* file, and a regular file unless the extension already says binary
Listed(i) ==
    /\ worktree[i].kind # "absent"
    /\ Walked(CrawlFiles[i].dir)
    /\ ~StartsWithDot(CrawlFiles[i].file)
    /\ \/ Lower(ExtOf(CrawlFiles[i].file)) \in binary_extensions
       \/ worktree[i].kind # "special"

\* the last _get_file_structure call returned, and the tree is as it saw it
Crawled == crawl.last = "returned" /\ ~crawl.edited

\* C19: after every completed crawl, a repeated one after the working tree
\* changed included, the leaf paths of the returned file_structure are the
\* keys of file_contents; a file with a binary extension and an unreadable
\* file are in both, with the binary marker as content.
C19_StructureMatchesContents ==
    Crawled =>
        /\ LeafPaths = DictKeys(file_contents)
        /\ \A i \in 1..Len(CrawlFiles) :
              (/\ Listed(i)
               /\ \/ Lower(ExtOf(CrawlFiles[i].file)) \in binary_extensions
                  \/ worktree[i].kind = "unreadable")
              => /\ KeyOf(CrawlFiles[i]) \in LeafPaths
                 /\ DictHas(file_contents, KeyOf(CrawlFiles[i]))
                 /\ DictGet(file_contents, KeyOf(CrawlFiles[i])) = BinaryMarker

\* C20: a crawl never aborts because of one file: whichever read, decode
\* or embedding step fails, the call returns; every listed file is in the
\* returned file_structure, and a file whose read failed has the binary
\* marker as content.
C20_CrawlNeverAborts ==
    (crawl.runs > 0 /\ ~crawl.edited) =>
        /\ crawl.last = "returned"
        /\ \A i \in 1..Len(CrawlFiles) :
              Listed(i) =>
                 /\ KeyOf(CrawlFiles[i]) \in LeafPaths
                 /\ worktree[i].kind = "unreadable"
                       => DictGet(file_contents, KeyOf(CrawlFiles[i])) = BinaryMarker

\* the place of a returned record in the history
PlaceOfCommit(commit) ==
    CHOOSE i \in 1..Len(commit_history) : commit_history[i].hash = commit.hash
\* record p comes before record q in the ranking of the last commit search
CommitRanksBefore(p, q) ==
    \/ csearch.sim[p.hash] > csearch.sim[q.hash]
    \/ /\ csearch.sim[p.hash] = csearch.sim[q.hash]
       /\ PlaceOfCommit(p) < PlaceOfCommit(q)

\* C18: search_commit_history returns [] for an empty history; otherwise
\* exactly min(5, number of indexed commits) records of the history, the
\* most similar ones, by descending cosine similarity of their messages to
\* the query, records of equal similarity in history order.
C18_CommitsBySimilarity ==
    csearch # NoCall =>
        LET result == csearch.result
        IN /\ commit_history = <<>> => result = <<>>
           /\ Len(result) = Min({CommitCap, Len(commit_history)})
           /\ \A n \in 1..Len(result) :
                 \E i \in 1..Len(commit_history) : commit_history[i] = result[n]
           /\ \A n, m \in 1..Len(result) :
                 n < m => CommitRanksBefore(result[n], result[m])

\* C21: a crawl that repeats a crawl of the same analyzer over an unmodified
\* working tree, model.encode ending for each file as it did before, leaves
\* file_contents as the first left it and returns an equal file_structure.
C21_CrawlIdempotent ==
    [][(/\ crawl'.runs = crawl.runs + 1
        /\ crawl'.repeat
        /\ crawl'.last = "returned"
        /\ crawl'.enc_failed = crawl.enc_failed)
       => /\ file_structure' = file_structure
          /\ file_contents' = file_contents]_vars

\* a second crawl over the same tree returned, with a text and a marker in
\* file_contents and a directory in the structure
C21_Witness ==
    /\ crawl.runs = 2
    /\ crawl.repeat
    /\ crawl.last = "returned"
    /\ crawl.enc_failed = {}
    /\ Len(file_contents) >= 3
    /\ \E i \in 1..Len(file_contents) : file_contents[i].value = BinaryMarker
    /\ \E i \in 1..Len(file_structure) : ~file_structure[i].value.leaf

\* C22: after every crawl of an analyzer that returned, a path has an entry in
\* file_embeddings if and only if its value in file_contents is a text that
\* was read (not the binary marker); no embedding outlives the content it
\* was made of.
C22_EmbeddingsMatchContents ==
    crawl.last = "returned" =>
        \A i \in 1..Len(CrawlFiles) :
            LET k == KeyOf(CrawlFiles[i])
            IN DictHas(file_embeddings, k)
                  <=> (DictHas(file_contents, k) /\ DictGet(file_contents, k) \in Texts)

\* the requests that went through fetch_and_analyze_repo and cloned
FetchRuns == {r \in 1..MaxRequests : reqs[r].path.kind = "stamp"}

\* C23: whenever the cache holds an analysis for a URL, the entry is the one
\* a single fetch_and_analyze_repo run stored: its analysis, its analyzer
\* and its clone path, also when two analyses of the URL overlap; and the
\* path an endpoint reads from the cache is the clone of a run of that URL.
C23_EntryOfOneRun ==
    /\ \A repo_url \in Urls :
          LET entry == repo_cache[repo_url]
          IN "analysis" \in entry.keys =>
                /\ {"analyzer", "path"} \subseteq entry.keys
                /\ entry.analysis \in FetchRuns
                /\ entry.analyzer = entry.analysis
                /\ entry.dir = reqs[entry.analysis].path
                /\ reqs[entry.analysis].url = repo_url
                /\ reqs[entry.analysis].stored
    /\ \A r \in 1..MaxRequests :
          (/\ reqs[r].endpoint \in {"repo_structure", "commits"}
           /\ reqs[r].answer.status = "success")
          => /\ reqs[r].answer.run \in FetchRuns
             /\ reqs[reqs[r].answer.run].url = reqs[r].url

\* two analyses of one URL overlapped and both stored their entry; the
\* cache holds the later one
C23_Witness ==
    \E r1, r2 \in FetchRuns :
       /\ r1 # r2
       /\ reqs[r1].url = reqs[r2].url
       /\ reqs[r1].stored /\ reqs[r2].stored
       /\ reqs[r1].path # reqs[r2].path
       /\ repo_cache[reqs[r1].url].analysis = r2
       /\ repo_cache[reqs[r1].url].dir = reqs[r2].path

\* C26: every entry of repo_cache holds a completed analysis, its analyzer
\* and its clone path, the analyzer is one that was analyzed, and an
\* endpoint that finds the URL in the cache can read what it needs.
C26_EntriesComplete ==
    /\ \A repo_url \in Urls :
          Cached(repo_cache, repo_url) =>
             /\ {"analysis", "analyzer", "path"} \subseteq repo_cache[repo_url].keys
             /\ repo_cache[repo_url].analyzer \in analyzed
    /\ \A r \in 1..MaxRequests : reqs[r].answer.status # "KeyError"

\* C27: no two fetches clone into the same repo_path.
C27_PathsDiffer ==
    \A r1, r2 \in FetchRuns : r1 # r2 => reqs[r1].path # reqs[r2].path

\* C24: a /api/commit-by-hash request whose lookup is still running when
\* the overall timeout expires is answered with the timed-out error, and
\* not later than the lookup finishes.
C24_TimedOutAnswer ==
    \A r \in 1..MaxLookups :
        (/\ reqs[r].pc = "done"
         /\ reqs[r].finished > reqs[r].start + TimeoutSeconds)
        => /\ reqs[r].answer.status = "timed out"
           /\ reqs[r].answered < reqs[r].finished

\* C25: however the threads in get_global_sentence_transformer interleave,
\* the embedding model is constructed at most once and every caller gets
\* that one instance.
C25_OneModel ==
    /\ built <= 1
    /\ \A t1, t2 \in 1..MaxThreads :
          (threads[t1].pc = "done" /\ threads[t2].pc = "done")
          => threads[t1].model = threads[t2].model

\* C28: after every _get_commit_history call the stored commit_history is
\* the list the call returned: at most max_commits records, no hash twice,
\* and nothing of a call that failed and returned [].
C28_HistoryIsLastResult ==
    hist_call # NoCall =>
        /\ commit_history = hist_ret
        /\ Len(commit_history) <= hist_call.max_commits
        /\ \A i, j \in 1..Len(commit_history) :
              commit_history[i].hash = commit_history[j].hash => i = j
        /\ hist_call.raised => commit_history = <<>>

\* the paths and change kinds of a list of file changes
ChangesOf(file_changes) == {file_changes[i] : i \in 1..Len(file_changes)}

\* the last resolver call was answered from the history, which an indexer
\* call in which nothing raised has built
FromCleanCache ==
    /\ res # NoCall
    /\ res.vcs = <<>>
    /\ res.result.kind = "commit"
    /\ hist_call # NoCall
    /\ ~hist_call.raised
    /\ \A i \in 1..Len(hist_call.bad) : hist_call.bad[i] = {}

\* C29: the record get_commit_by_hash returns from the cached history has
\* the file changes (paths and change kinds) of the record the resolver
\* builds from the VCS for the same commit, for every commit with at most
\* max_files changes, whichever strategy the resolver gets its changes by.
C29_CacheEqualsResolver ==
    FromCleanCache =>
        LET c == CommitOf(res.result.hash)
        IN \A fc \in FileChangeOutcomes(c, NumPaths) :
              (/\ fc.strategy # "none"
               /\ Len(fc.file_changes) <= res.max_files
               /\ Len(res.result.file_changes) <= res.max_files)
              => ChangesOf(res.result.file_changes) = ChangesOf(fc.file_changes)

\* what a crawl alone leaves after the first n entries of the working tree
CrawledAlone(n) ==
    CrawlFrom([contents |-> <<>>, embeddings |-> <<>>, structure |-> <<>>,
               raised |-> FALSE],
              1, [i \in 1..Len(CrawlFiles) |->
                     IF i <= n THEN worktree[i] ELSE OnDisk("absent")],
              [i \in 1..Len(CrawlFiles) |-> "ok"])

\* what the indexer alone leaves after the first n commits
IndexedAlone(n) == [i \in 1..n |-> IndexRecord(repo[i], {})]

\* C30: the two workers of analyze_repo write disjoint fields of the
\* analyzer: at every point commit_history is what the indexer alone would
\* have stored so far and file_contents and file_embeddings are what the
\* crawl alone would have stored so far, so every interleaving ends in the
\* same analyzer fields and the same results.
C30_WorkersIndependent ==
    work.pc # "none" =>
        /\ commit_history = IndexedAlone(work.index)
        /\ file_contents = CrawledAlone(work.crawl).contents
        /\ file_embeddings = CrawledAlone(work.crawl).embeddings
        /\ work.pc = "done" =>
              /\ work.results.commit_history = IndexedAlone(Len(repo))
              /\ work.results.file_structure = CrawledAlone(Len(CrawlFiles)).structure
              /\ work.results.important_files
                    = ImportantFiles(CrawledAlone(Len(CrawlFiles)).contents)

\* analyze_repo returned after the indexer stored two records and the crawl
\* embedded two files
C30_Witness ==
    /\ work.pc = "done"
    /\ Len(commit_history) = 2
    /\ Len(file_embeddings) = 2
    /\ Len(work.results.important_files) = 2

====
